---- MODULE Spec2Model ----
(***************************************************************************)
(* Ingestion pipeline of the article scraper: the scheduler's cycle        *)
(* (fetchAndProcessArticles), the article store with its unique url index, *)
(* the enrichment batch driver (processArticles / processArticle), the     *)
(* notification fan-out (notifyUsersAboutBatchArticles and the batched     *)
(* message), the two relevance scorers, the credibility score, the lazy    *)
(* loading of the embedding model, the scraper (scrapeArticles), the       *)
(* signup route and the script that fills in missing embeddings.           *)
(***************************************************************************)
EXTENDS Integers, Sequences, FiniteSets, TLC

\* ------------------------------------------------------------------ bounds
\* Number of distinct article urls the source can show.
NumUrls == 2
\* Longest list one scrape returns (the code's cap is 20 links per scrape).
MaxScrape == 3
\* Invocations of fetchAndProcessArticles that may be in flight together.
MaxCycles == 2
\* Longest batch handed to processArticles on its own.
MaxBatch == 2
\* Longest list of saved articles handed to the notification fan-out.
MaxFan == 3
\* Concurrent callers of embeddingService.initializeModel.
MaxCallers == 3
\* Loads of the embedding model that may fail.
MaxLoadFailures == 2
MaxLinksFound == 22

Urls == 1..NumUrls
Cycles == 1..MaxCycles

RECURSIVE SeqsUpTo(_, _)
SeqsUpTo(S, n) ==
  IF n = 0 THEN {<<>>}
  ELSE LET shorter == SeqsUpTo(S, n - 1)
       IN shorter \cup {Append(s, x) : s \in {t \in shorter : Len(t) = n - 1}, x \in S}

Range(s) == {s[k] : k \in 1..Len(s)}

\* What scrapeArticles can resolve to: a list of articles (identified by
\* url).  extractArticleLinks de-duplicates on the raw href but pushes the
\* absolute url, so the same url can appear twice in one scrape.
ScrapeResults == SeqsUpTo(Urls, MaxScrape)
\* The lists used where invocations overlap: nothing, one link, or the same
\* link twice (a relative href repeated on the index page).
RaceResults == {<<>>, <<1>>, <<2>>, <<1, 1>>, <<2, 2>>}

NoRun == [urls |-> {}, ran |-> FALSE, clean |-> FALSE]

VARIABLES
  \* --- the Article collection: number of stored records per url
  store,
  \* --- one invocation of fetchAndProcessArticles per slot
  pc,              \* position of the invocation
  scrapedArticles, \* result of scraper.scrapeArticles
  existingUrls,    \* urls the bulk Article.find returned
  newArticles,     \* scrapedArticles filtered by existingUrls
  processedArticles, \* output of aiProcessor.processArticles, so far
  idx,             \* position of the insert loop in processedArticles
  savedArticles,   \* articles this cycle saved
  skippedCount,    \* skippedCount of the insert loop
  \* --- notification side
  notified,        \* urls dispatched successfully to their subscribers
  \* --- observation of the run (history)
  seenAtCheck,     \* scraped urls that were stored when the bulk find ran
  inserted,        \* urls for which this cycle's save() succeeded
  exit,            \* how the last invocation of the slot ended
  did,             \* steps the invocation performed
  handed,          \* per url: number of cycles that handed it to fan-out
  unhandled,       \* an exception escaped fetchAndProcessArticles
  \* --- observation of consecutive runs (history, kept by Observe)
  lastDone,        \* scraped urls of the most recently completed cycle
  failed,          \* a lookup or an insert of the running cycle raised an error
  rerun,           \* whether the running cycle scraped the urls of lastDone
  \* --- one call of processArticles
  paInput,         \* the articles passed in
  paPos,           \* articles the loop has gone through
  paOutput,        \* processedArticles
  paCalls,         \* per article gone through: the collaborator calls made
  \* --- one call of notifyUsersAboutBatchArticles
  fnPc,            \* position of the call
  fnExit,          \* how the call returned
  fnSmtp,          \* SMTP_USER and SMTP_PASSWORD are set
  fnArticles,      \* the articles passed in
  fnUsers,         \* the users User.find returns
  userArticleMap,  \* per user: the matching articles (empty: no entry)
  sendState,       \* per user: the state of sendBatchArticleNotification
  fnMail,          \* per user: the message handed to sendMail
  successCount,
  failureCount,
  \* --- embeddingService: the lazily loaded model and the callers of initializeModel
  embeddingModel,  \* the pipeline is loaded (module variable, null before)
  isInitializing,  \* module variable
  imPc,            \* per caller: position in initializeModel
  imResult,        \* per caller: what its last call settled with
  imWaited,        \* per caller: its running or last call went through the wait loop
  loadsStarted,    \* calls of pipeline(...) so far
  loadsFailed,     \* of which rejected
  \* --- one call of a relevance scorer
  scSide,          \* which calculateRelevanceScore was called
  scArticle,       \* its article
  scInterest,      \* its interest string
  scResult,        \* what it returned
  \* --- one call of credibilityService.assessCredibility
  crPc,            \* "idle" or "done"
  crInput,         \* the article's signals and what the AI answered
  crResult,        \* the score returned, with the parts it was added up from
  \* --- one article through processArticle and the merge in processArticles
  enPc,            \* "idle" or "done"
  enRaw,           \* the scraped article
  enOutcome,       \* what the collaborators did for it
  enEnriched,      \* the enriched article pushed, with the calls made
  \* --- POST /signup
  suPc,            \* "idle" or "done"
  suBody,          \* req.body
  suBefore,        \* the users collection when the request arrived
  suResult,        \* the response: status and what refused the request
  subscribers,     \* the users collection
  \* --- one call of scrapeArticles
  srPc,            \* "idle", "scraping", "returned" or "threw"
  srCategory,      \* whether a category filter was passed
  srFound,         \* links found on the index page
  srLinks,         \* links extractArticleLinks returned
  srPos,           \* links visited so far
  srArticles,      \* articles pushed so far
  srKept,          \* of those, the ones filterByCategory keeps
  srKinds,         \* what the pushed articles carry
  srSkipped,       \* links that gave no article
  srResult,        \* length of the array returned
  \* --- the articles collection, field by field, and the embedding script
  bfStore,         \* per url: the stored record, or NoRecord
  bfPc,            \* "idle", "running" or "exited"
  bfFound,         \* articlesWithoutEmbeddings
  bfPos,           \* position of the loop in it
  bfSuccess,       \* successCount
  bfErrors         \* errorCount

cycleVars == <<pc, scrapedArticles, existingUrls, newArticles, processedArticles,
               idx, savedArticles, skippedCount, seenAtCheck, inserted, exit, did>>
sharedVars == <<store, notified, handed, unhandled>>
obsVars == <<lastDone, failed, rerun>>
paVars == <<paInput, paPos, paOutput, paCalls>>
\* Everything that is not part of the scheduler's cycle.
fanVars == <<fnPc, fnExit, fnSmtp, fnArticles, fnUsers, userArticleMap, sendState,
             fnMail, successCount, failureCount>>
initVars == <<embeddingModel, isInitializing, imPc, imResult, imWaited, loadsStarted,
              loadsFailed>>
scoreVars == <<scSide, scArticle, scInterest, scResult>>
credVars == <<crPc, crInput, crResult>>
enrichVars == <<enPc, enRaw, enOutcome, enEnriched>>
signupVars == <<suPc, suBody, suBefore, suResult, subscribers>>
scrapeVars == <<srPc, srCategory, srFound, srLinks, srPos, srArticles, srKept, srKinds,
                srSkipped, srResult>>
backfillVars == <<bfStore, bfPc, bfFound, bfPos, bfSuccess, bfErrors>>
offCycle == <<paVars, fanVars, initVars, scoreVars, credVars, enrichVars, signupVars,
              scrapeVars, backfillVars>>
vars == <<cycleVars, sharedVars, obsVars, offCycle>>

\* ------------------------------------------------------------ the store
\* articleSchema.url is unique: save() of a second record with a stored url
\* is rejected with the duplicate-key error E11000.
\* Variant: the collection has no unique index on url.
UniqueIndexMissing(st, u) == FALSE

UniqueIndex(st, u) == st[u] > 0

\* Results save() can have for url u: written, rejected by the unique index,
\* or another error (validation, connection).
SaveCodes(st, u) ==
  IF UniqueIndex(st, u) THEN {"E11000", "other"} ELSE {"ok", "other"}

\* Variant: save() resolves without the record being written.
StoreAfterSaveLost(st, u, code) == st

StoreAfterSave(st, u, code) ==
  IF code = "ok" THEN [st EXCEPT ![u] = @ + 1] ELSE st

\* ------------------------------------------------- fetchAndProcessArticles
\* const existingUrls = new Set(existingArticles.map(a => a.url))
ExistingUrls(scraped, st) == {u \in Range(scraped) : st[u] > 0}

\* scrapedArticles.filter(article => !existingUrls.has(article.url))
\* Variant: the filter keeps every scraped article.
FilterNewKeepsAll(scraped, existing) == scraped

FilterNew(scraped, existing) == SelectSeq(scraped, LAMBDA u : u \notin existing)

\* if (scrapedArticles.length === 0) return;
\* Variant: the early return on an empty scrape is missing.
NoArticlesScrapedIgnored(scraped) == FALSE

NoArticlesScraped(scraped) == Len(scraped) = 0

\* savedArticles.push(articleData) follows a save() that resolved.
\* Variant: the article is pushed to savedArticles also when save() was
\* rejected as a duplicate.
SavedAfterAlsoOnDuplicate(saved, u, code) ==
  IF code \in {"ok", "E11000"} THEN Append(saved, u) ELSE saved

SavedAfter(saved, u, code) == IF code = "ok" THEN Append(saved, u) ELSE saved

\* catch (error) { if (error.code === 11000) skippedCount++ ... }
SkippedAfter(n, code) == IF code = "E11000" THEN n + 1 ELSE n

\* The fan-out call sits in its own try/catch after the insert loop: whatever
\* it does, nothing is written back to the store.
\* Variant: a fan-out that did not dispatch everything removes the saved
\* articles again.
StoreAfterFanoutRollback(st, saved, outcome) ==
  IF outcome = Range(saved) THEN st
  ELSE [u \in Urls |-> IF u \in Range(saved) THEN 0 ELSE st[u]]

StoreAfterFanout(st, saved, outcome) == st

\* The whole body of fetchAndProcessArticles is inside try { } catch { log }.
\* Variant: the bulk lookup runs outside the try block.
CaughtExceptFind(step) == step # "find"

Caught(step) == TRUE

\* The invocation in slot c returns (normally, or through the outer catch).
Finish(c, how, dd) ==
  /\ pc' = [pc EXCEPT ![c] = "idle"]
  /\ exit' = [exit EXCEPT ![c] = how]
  /\ did' = [did EXCEPT ![c] = dd]
  /\ inserted' = [inserted EXCEPT ![c] = <<>>]
  /\ scrapedArticles' = [scrapedArticles EXCEPT ![c] = <<>>]
  /\ existingUrls' = [existingUrls EXCEPT ![c] = {}]
  /\ seenAtCheck' = [seenAtCheck EXCEPT ![c] = {}]
  /\ newArticles' = [newArticles EXCEPT ![c] = <<>>]
  /\ processedArticles' = [processedArticles EXCEPT ![c] = <<>>]
  /\ idx' = [idx EXCEPT ![c] = 0]
  /\ savedArticles' = [savedArticles EXCEPT ![c] = <<>>]
  /\ skippedCount' = [skippedCount EXCEPT ![c] = 0]

\* An exception raised at `step` of slot c: the outer catch logs it and the
\* invocation resolves.
Throw(c, step, how, dd) ==
  /\ Finish(c, how, dd)
  /\ unhandled' = (unhandled \/ ~Caught(step))

\* cron.schedule(cronSchedule, async () => { await fetchAndProcessArticles() })
\* and the RUN_ON_STARTUP call: neither looks at a cycle already running.
Trigger(c) ==
  /\ pc[c] = "idle"
  /\ pc' = [pc EXCEPT ![c] = "extracting"]
  /\ exit' = [exit EXCEPT ![c] = "running"]
  /\ did' = [did EXCEPT ![c] = {}]
  /\ UNCHANGED <<scrapedArticles, existingUrls, newArticles, processedArticles,
                 idx, savedArticles, skippedCount, seenAtCheck, inserted>>
  /\ UNCHANGED <<sharedVars, offCycle>>

\* const scrapedArticles = await scraper.scrapeArticles(categoryFilter)
ScrapeThrows(c) ==
  /\ pc[c] = "extracting"
  /\ Throw(c, "scrape", "scrapeThrew", did[c])
  /\ UNCHANGED <<store, notified, handed, offCycle>>

Scrape(c, results) ==
  /\ pc[c] = "extracting"
  /\ \E r \in results :
       IF NoArticlesScraped(r)
       THEN /\ Finish(c, "noArticles", did[c])
            /\ UNCHANGED unhandled
       ELSE /\ pc' = [pc EXCEPT ![c] = "dedup"]
            /\ scrapedArticles' = [scrapedArticles EXCEPT ![c] = r]
            /\ UNCHANGED <<existingUrls, newArticles, processedArticles, idx,
                           savedArticles, skippedCount, seenAtCheck, inserted,
                           exit, did, unhandled>>
  /\ UNCHANGED <<store, notified, handed, offCycle>>

\* const existingArticles = await Article.find({ url: { $in: scrapedUrls } })
FindThrows(c) ==
  /\ pc[c] = "dedup"
  /\ Throw(c, "find", "findThrew", did[c] \cup {"find"})
  /\ UNCHANGED <<store, notified, handed, offCycle>>

Dedup(c) ==
  /\ pc[c] = "dedup"
  /\ LET ex == ExistingUrls(scrapedArticles[c], store)
         nw == FilterNew(scrapedArticles[c], ex)
     IN IF Len(nw) = 0
        THEN /\ Finish(c, "allExist", did[c] \cup {"find"})
             /\ UNCHANGED unhandled
        ELSE /\ pc' = [pc EXCEPT ![c] = "enriching"]
             /\ existingUrls' = [existingUrls EXCEPT ![c] = ex]
             /\ seenAtCheck' = [seenAtCheck EXCEPT ![c] =
                  {u \in Urls : store[u] > 0} \cap Range(scrapedArticles[c])]
             /\ newArticles' = [newArticles EXCEPT ![c] = nw]
             /\ did' = [did EXCEPT ![c] = @ \cup {"find"}]
             /\ UNCHANGED <<scrapedArticles, processedArticles, idx, savedArticles,
                            skippedCount, inserted, exit, unhandled>>
  /\ UNCHANGED <<store, notified, handed, offCycle>>

\* ------------------------------------------------------------- enrichment
\* What the collaborators of processArticle can do for one article.
\*   client: an AI client is configured (getAIClient)
\*   ai:     the completion call and the text it returns
\*   cred:   credibilityService.assessCredibility resolves or rejects
\*   emb:    embeddingService.generateArticleEmbedding: a vector, null, rejects
AiOutcomes == {"callError", "nullContent", "text", "jsonNull", "jsonScalar",
               "badSentiment", "object"}
Outcomes == [client : BOOLEAN, ai : AiOutcomes, cred : {"score", "throws"},
             emb : {"vector", "null", "throws"}]

\* JSON.parse of the (possibly fenced) response text, or the line-scanning
\* fallback of the catch block: "throws" when responseText is null, because
\* responseText.match throws and then responseText.split throws in the catch.
ParseResponse(ai) ==
  CASE ai = "nullContent" -> "throws"
    [] ai = "text" -> "heuristic"
    [] ai = "jsonNull" -> "null"
    [] ai = "jsonScalar" -> "scalar"
    [] ai = "badSentiment" -> "objectBadSentiment"
    [] OTHER -> "object"

\* The return statement of the try block reads parsedResponse.summary (throws
\* on null) and calls parsedResponse.sentiment?.toLowerCase() (throws when
\* sentiment is not a string).
ReturnThrows(parsed) == parsed \in {"null", "objectBadSentiment"}

CredScore(o) == IF o.cred = "score" THEN "score" ELSE "none"
Embedding(o) == IF o.emb = "vector" THEN "vector" ELSE "none"

\* processArticle(article): the fields it resolves to, with the number of
\* collaborator calls it made.
processArticle(article, o) ==
  IF ~o.client
  THEN [threw |-> FALSE, mode |-> "noClient", credibilityScore |-> CredScore(o),
        embedding |-> "absent", aiCalls |-> 0, credCalls |-> 1, embCalls |-> 0]
  ELSE IF o.ai = "callError" \/ ParseResponse(o.ai) = "throws"
  THEN \* outer catch, entered before the credibility step
       [threw |-> FALSE, mode |-> "degraded", credibilityScore |-> CredScore(o),
        embedding |-> Embedding(o), aiCalls |-> 1, credCalls |-> 1, embCalls |-> 1]
  ELSE IF ReturnThrows(ParseResponse(o.ai))
  THEN \* credibility and embedding ran in the try block, then again in the catch
       [threw |-> FALSE, mode |-> "degraded", credibilityScore |-> CredScore(o),
        embedding |-> Embedding(o), aiCalls |-> 1, credCalls |-> 2,
        embCalls |-> IF ParseResponse(o.ai) = "null" THEN 1 ELSE 2]
  ELSE [threw |-> FALSE,
        mode |-> IF ParseResponse(o.ai) = "heuristic" THEN "heuristic" ELSE "structured",
        credibilityScore |-> CredScore(o), embedding |-> Embedding(o),
        aiCalls |-> 1, credCalls |-> 1, embCalls |-> 1]

\* One iteration of the loop of processArticles: the enriched article pushed
\* for `article`, from the try block or from the catch block.
\* Variant: an article whose enrichment degraded is dropped from the batch.
ProcessArticlesStepDropsDegraded(out, article, o) ==
  LET r == processArticle(article, o)
  IN IF r.threw \/ r.mode = "degraded"
     THEN out
     ELSE Append(out, [url |-> article, mode |-> r.mode,
                       credibilityScore |-> r.credibilityScore,
                       embedding |-> r.embedding])

ProcessArticlesStep(out, article, o) ==
  LET r == processArticle(article, o)
  IN IF r.threw
     THEN Append(out, [url |-> article, mode |-> "degraded",
                       credibilityScore |-> CredScore(o), embedding |-> Embedding(o)])
     ELSE Append(out, [url |-> article, mode |-> r.mode,
                       credibilityScore |-> r.credibilityScore,
                       embedding |-> r.embedding])

\* Calls one iteration of the loop of processArticles makes for `article`: the
\* completion request of processArticle, and assessCredibility from the try
\* block and the catch block of processArticle and from the catch block of
\* the loop.
CallsOf(article, o) ==
  LET r == processArticle(article, o)
  IN [aiCalls |-> r.aiCalls,
      credCalls |-> r.credCalls + (IF r.threw THEN 1 ELSE 0),
      parsed |-> IF o.client /\ o.ai # "callError" THEN ParseResponse(o.ai) ELSE "none"]

UrlsOf(out) == [k \in 1..Len(out) |-> out[k].url]

\* const processedArticles = await aiProcessor.processArticles(newArticles),
\* one article per step (the loop awaits each article and a 1 s delay).
Enrich(c) ==
  /\ pc[c] = "enriching"
  /\ LET k == Len(processedArticles[c]) + 1
     IN \E out \in {UrlsOf(ProcessArticlesStep(<<>>, newArticles[c][k], o)) : o \in Outcomes} :
          LET done == processedArticles[c] \o out
          IN /\ processedArticles' = [processedArticles EXCEPT ![c] = done]
             /\ IF k = Len(newArticles[c])
                THEN /\ pc' = [pc EXCEPT ![c] = IF Len(done) > 0 THEN "recheck" ELSE "looped"]
                     /\ idx' = [idx EXCEPT ![c] = 1]
                ELSE UNCHANGED <<pc, idx>>
  /\ did' = [did EXCEPT ![c] = @ \cup {"enrich"}]
  /\ UNCHANGED <<scrapedArticles, existingUrls, newArticles, savedArticles,
                 skippedCount, seenAtCheck, inserted, exit>>
  /\ UNCHANGED <<sharedVars, offCycle>>

\* Variant: the insert loop ends after its first article.
NextArticleEndsLoop(c) ==
  /\ idx' = [idx EXCEPT ![c] = @ + 1]
  /\ pc' = [pc EXCEPT ![c] = "looped"]

\* The insert loop moves to the next article, or ends.
NextArticle(c) ==
  /\ idx' = [idx EXCEPT ![c] = @ + 1]
  /\ pc' = [pc EXCEPT ![c] =
       IF idx[c] < Len(processedArticles[c]) THEN "recheck" ELSE "looped"]

\* Variant: the re-check runs outside the try block of the loop body, so its
\* error ends the invocation in the outer catch.
RecheckThrowsAborts(c) ==
  /\ pc[c] = "recheck"
  /\ Throw(c, "recheck", "recheckThrew", did[c] \cup {"insert"})
  /\ UNCHANGED <<store, notified, handed, offCycle>>

\* const existingArticle = await Article.findOne({ url: articleData.url })
RecheckThrows(c) ==
  /\ pc[c] = "recheck"
  /\ NextArticle(c)
  /\ did' = [did EXCEPT ![c] = @ \cup {"insert"}]
  /\ UNCHANGED <<scrapedArticles, existingUrls, newArticles, processedArticles,
                 savedArticles, skippedCount, seenAtCheck, inserted, exit>>
  /\ UNCHANGED <<sharedVars, offCycle>>

Recheck(c) ==
  /\ pc[c] = "recheck"
  /\ IF store[processedArticles[c][idx[c]]] > 0
     THEN /\ skippedCount' = [skippedCount EXCEPT ![c] = @ + 1]
          /\ NextArticle(c)
     ELSE /\ pc' = [pc EXCEPT ![c] = "save"]
          /\ UNCHANGED <<skippedCount, idx>>
  /\ did' = [did EXCEPT ![c] = @ \cup {"insert"}]
  /\ UNCHANGED <<scrapedArticles, existingUrls, newArticles, processedArticles,
                 savedArticles, seenAtCheck, inserted, exit>>
  /\ UNCHANGED <<sharedVars, offCycle>>

\* const article = new Article(articleData); await article.save(); ...
Save(c) ==
  /\ pc[c] = "save"
  /\ LET u == processedArticles[c][idx[c]]
     IN \E code \in SaveCodes(store, u) :
          /\ store' = StoreAfterSave(store, u, code)
          /\ savedArticles' = [savedArticles EXCEPT ![c] = SavedAfter(@, u, code)]
          /\ skippedCount' = [skippedCount EXCEPT ![c] = SkippedAfter(@, code)]
          /\ inserted' = [inserted EXCEPT ![c] =
               IF store'[u] > store[u] THEN Append(@, u) ELSE @]
  /\ NextArticle(c)
  /\ UNCHANGED <<scrapedArticles, existingUrls, newArticles, processedArticles,
                 seenAtCheck, exit, did>>
  /\ UNCHANGED <<notified, handed, unhandled, offCycle>>

\* if (savedArticles.length > 0) { ... } after the loop; otherwise return.
NothingSaved(c) ==
  /\ pc[c] = "looped"
  /\ Len(savedArticles[c]) = 0
  /\ Finish(c, "noneSaved", did[c])
  /\ UNCHANGED <<store, notified, handed, unhandled, offCycle>>

\* await emailService.notifyUsersAboutBatchArticles(savedArticles): the set D
\* of saved urls whose dispatch to the matching subscribers succeeded.
Notify(c) ==
  /\ pc[c] = "looped"
  /\ Len(savedArticles[c]) > 0
  /\ \E D \in SUBSET Range(savedArticles[c]) :
       /\ notified' = notified \cup D
       /\ store' = StoreAfterFanout(store, savedArticles[c], D)
       /\ Finish(c, IF D = Range(savedArticles[c]) THEN "notified" ELSE "fanoutFailed",
                 did[c] \cup {"notify"})
  /\ handed' = [u \in Urls |->
                  IF u \in Range(savedArticles[c]) THEN handed[u] + 1 ELSE handed[u]]
  /\ UNCHANGED <<unhandled, offCycle>>

\* notifyUsersAboutBatchArticles rejects: catch (emailError) { log }.
NotifyThrows(c) ==
  /\ pc[c] = "looped"
  /\ Len(savedArticles[c]) > 0
  /\ store' = StoreAfterFanout(store, savedArticles[c], "throw")
  /\ Finish(c, "fanoutThrew", did[c] \cup {"notify"})
  /\ unhandled' = (unhandled \/ ~Caught("fanout"))
  /\ handed' = [u \in Urls |->
                  IF u \in Range(savedArticles[c]) THEN handed[u] + 1 ELSE handed[u]]
  /\ UNCHANGED <<notified, offCycle>>

\* ================================================================ text
\* Strings are sequences of one-character strings.
\* String.prototype.toLowerCase over the letters that occur in the inputs.
LowerOf == [A |-> "a", C |-> "c", M |-> "m", L |-> "l", R |-> "r", T |-> "t"]

toLowerCase(s) ==
  [k \in 1..Len(s) |-> IF s[k] \in DOMAIN LowerOf THEN LowerOf[s[k]] ELSE s[k]]

\* String.prototype.trim
RECURSIVE trim(_)
trim(s) ==
  IF s = <<>> THEN s
  ELSE IF Head(s) = " " THEN trim(Tail(s))
  ELSE IF s[Len(s)] = " " THEN trim(SubSeq(s, 1, Len(s) - 1))
  ELSE s

\* String.prototype.includes
includes(text, part) ==
  \E i \in 0..(Len(text) - Len(part)) : SubSeq(text, i + 1, i + Len(part)) = part

\* Array.prototype.join(' ') of a list of strings
RECURSIVE join(_)
join(list) ==
  IF list = <<>> THEN <<>>
  ELSE IF Len(list) = 1 THEN list[1]
  ELSE list[1] \o <<" ">> \o join(Tail(list))

\* new RegExp(pattern, 'g') throws a SyntaxError ("Nothing to repeat") when a
\* quantifier has nothing before it or follows another quantifier.
RegExpThrows(pattern) ==
  \E k \in 1..Len(pattern) :
    /\ pattern[k] \in {"+", "*", "?"}
    /\ (k = 1 \/ pattern[k - 1] \in {"+", "*"})

\* (text.match(new RegExp(pattern, 'g')) || []).length for a pattern without
\* metacharacters: the non-overlapping occurrences found from left to right;
\* the empty pattern matches once at every index, the end included.
RECURSIVE MatchCount(_, _, _)
MatchCount(text, pattern, from) ==
  IF pattern = <<>> THEN Len(text) + 1 - from
  ELSE LET hits == {i \in from..(Len(text) - Len(pattern)) :
                      SubSeq(text, i + 1, i + Len(pattern)) = pattern}
       IN IF hits = {} THEN 0
          ELSE LET i == CHOOSE h \in hits : \A g \in hits : h <= g
               IN 1 + MatchCount(text, pattern, i + Len(pattern))

Min(a, b) == IF a < b THEN a ELSE b
Max(a, b) == IF a > b THEN a ELSE b

\* =========================================================== relevance
\* A score: a number, null, or the call threw.
Num(n) == [kind |-> "num", v |-> n]
Null == [kind |-> "null", v |-> 0]
Threw == [kind |-> "throws", v |-> 0]

\* calculateRelevanceScore of emailService.js (the notification side).  Absent
\* fields of the article and an absent category are the empty string here:
\* (article.title || '') and !userCategory treat both alike.
calculateRelevanceScore(article, userCategory) ==
  IF userCategory = <<>> THEN Num(50)
  ELSE LET categoryLower == trim(toLowerCase(userCategory))
           title == toLowerCase(article.title)
           content == toLowerCase(article.content)
           summary == toLowerCase(article.summary)
           tags == join([k \in 1..Len(article.tags) |-> toLowerCase(article.tags[k])])
       IN IF RegExpThrows(categoryLower) THEN Threw
          ELSE Num(Min(Max(
                 (IF includes(title, categoryLower) THEN 40 ELSE 0)
                 + (IF includes(summary, categoryLower) THEN 30 ELSE 0)
                 + Min(MatchCount(content, categoryLower, 0) * 5, 20)
                 + (IF includes(tags, categoryLower) THEN 10 ELSE 0), 0), 100))

\* tags.forEach(tag => ...) of relevance.js: the points one tag adds.
TagPoints(tag, categoryLower) ==
  IF tag = categoryLower THEN 15
  ELSE IF includes(tag, categoryLower) THEN 10
  ELSE IF includes(categoryLower, tag) /\ Len(tag) > 2 THEN 5
  ELSE 0

RECURSIVE TagScore(_, _)
TagScore(tags, categoryLower) ==
  IF tags = <<>> THEN 0
  ELSE TagPoints(trim(toLowerCase(Head(tags))), categoryLower)
       + TagScore(Tail(tags), categoryLower)

\* calculateRelevanceScore of the frontend's utils/relevance.js (the search
\* side).
calculateRelevanceScoreFrontend(article, category) ==
  IF category = <<>> \/ trim(category) = <<>> THEN Null
  ELSE LET categoryLower == trim(toLowerCase(category))
           title == toLowerCase(article.title)
           content == toLowerCase(article.content)
           summary == toLowerCase(article.summary)
       IN IF RegExpThrows(categoryLower) THEN Threw
          ELSE Num(Min(Max(
                 (IF includes(title, categoryLower) THEN 40 ELSE 0)
                 + (IF includes(summary, categoryLower) THEN 30 ELSE 0)
                 + Min(MatchCount(content, categoryLower, 0) * 5, 20)
                 + Min(TagScore(article.tags, categoryLower), 25), 0), 100))

\* ============================================================= fan-out
\* The newly saved articles the fan-out is given, by id.
SampleArticles == <<
  [title |-> <<"M", "a", "l">>, content |-> <<>>, summary |-> <<>>, tags |-> <<>>],
  [title |-> <<"x">>, content |-> <<"m", "a", "l", " ", "m", "a", "l">>,
   summary |-> <<"m", "a", "l">>, tags |-> <<>>],
  [title |-> <<"x", "m", "a", "l", "x">>, content |-> <<"M", "A", "L">>,
   summary |-> <<"m", "a", "l">>, tags |-> << <<"m", "a", "l">> >>],
  [title |-> <<"x">>, content |-> <<"y">>, summary |-> <<>>, tags |-> <<>>],
  [title |-> <<"c", "+", "+">>, content |-> <<"c", "+", "+">>, summary |-> <<>>,
   tags |-> <<>>],
  [title |-> <<"z">>, content |-> <<>>, summary |-> <<>>, tags |-> <<>>] >>
ArticleIds == DOMAIN SampleArticles

\* The users collection, by email: a category keyword, a semantic query, or
\* both (routes/users.js requires one of them).
SampleUsers == <<
  [category |-> <<"M", "a", "l">>, semanticQuery |-> <<>>],
  [category |-> <<"y">>, semanticQuery |-> <<>>],
  [category |-> <<>>, semanticQuery |-> <<"m", "a", "l">>],
  [category |-> <<"c", "+", "+">>, semanticQuery |-> <<>>],
  [category |-> <<"x", " ", "y">>, semanticQuery |-> <<>>] >>
UserIds == DOMAIN SampleUsers

\* Lists of distinct saved articles (their urls differ: the index is unique).
FanInputs ==
  {l \in SeqsUpTo(ArticleIds, MaxFan) : \A i, j \in 1..Len(l) : i # j => l[i] # l[j]}

\* const categoryLower = user.category?.toLowerCase().trim()
CategoryLower(user) == trim(toLowerCase(user.category))

\* articles.filter(article => articleText.includes(categoryLower))
\* Variant: the article text is compared without lower-casing it.
MatchesCaseSensitive(article, categoryLower) ==
  includes(article.title \o <<" ">> \o article.content, categoryLower)

Matches(article, categoryLower) ==
  includes(toLowerCase(article.title \o <<" ">> \o article.content), categoryLower)

\* The entry of userArticleMap for a user: the matching articles, or none
\* (the empty list) when the user has no category or nothing matches.
MatchingArticles(articles, user) ==
  IF CategoryLower(user) = <<>> THEN <<>>
  ELSE SelectSeq(articles, LAMBDA a : Matches(SampleArticles[a], CategoryLower(user)))

\* articles.map(article => ({...article, relevanceScore}))
WithScores(articles, userCategory) ==
  [k \in 1..Len(articles) |->
     [id |-> articles[k],
      relevanceScore |-> calculateRelevanceScore(SampleArticles[articles[k]], userCategory)]]

\* .sort((a, b) => b.relevanceScore - a.relevanceScore): Array.prototype.sort
\* is stable, so an element goes behind every element that is not smaller.
InsertByScore(sorted, x) ==
  LET ahead == Cardinality({k \in 1..Len(sorted) :
                              sorted[k].relevanceScore.v >= x.relevanceScore.v})
  IN SubSeq(sorted, 1, ahead) \o <<x>> \o SubSeq(sorted, ahead + 1, Len(sorted))

RECURSIVE SortByScore(_)
SortByScore(list) ==
  IF list = <<>> THEN <<>>
  ELSE InsertByScore(SortByScore(SubSeq(list, 1, Len(list) - 1)), list[Len(list)])

RECURSIVE SumScores(_)
SumScores(list) ==
  IF list = <<>> THEN 0 ELSE Head(list).relevanceScore.v + SumScores(Tail(list))

\* Math.round(x / n) for non-negative x: halves round up.
RoundDiv(x, n) == (2 * x + n) \div (2 * n)

\* const relevanceScore = article.relevanceScore || 50: the value printed as
\* "NN% Match" for an article of the html body.
Rendered(relevanceScore) == IF relevanceScore.v = 0 THEN 50 ELSE relevanceScore.v

NoMail == [built |-> FALSE, html |-> <<>>, shown |-> <<>>, text |-> <<>>, count |-> 0,
           avgRelevance |-> 0]

\* What sendBatchArticleNotification puts together before sendMail: the html
\* body lists articlesWithScores (sorted), the text body lists `articles`.
\* Nothing is built when scoring throws (the catch returns false).
BatchMail(articles, userCategory) ==
  LET scored == WithScores(articles, userCategory)
  IN IF \E k \in 1..Len(scored) : scored[k].relevanceScore.kind = "throws"
     THEN NoMail
     ELSE LET articlesWithScores == SortByScore(scored)
          IN [built |-> TRUE,
              html |-> articlesWithScores,
              shown |-> [k \in 1..Len(articlesWithScores) |->
                           Rendered(articlesWithScores[k].relevanceScore)],
              text |-> articles,
              count |-> Len(articles),
              avgRelevance |-> RoundDiv(SumScores(articlesWithScores), Len(articlesWithScores))]

\* Promise.allSettled(emailPromises) resolves when no send is pending.
\* Variant: the join resolves as soon as one send has failed (fail-fast).
SettledFailFast(states) ==
  \/ \E u \in UserIds : states[u] = "failed"
  \/ \A u \in UserIds : states[u] # "pending"

Settled(states) == \A u \in UserIds : states[u] # "pending"

\* ==================================================== embedding model
Callers == 1..MaxCallers

\* if (isInitializing) { while (isInitializing) await timeout(100) ... }
\* Variant: initializeModel does not look at isInitializing.
InitializingIgnored(flag) == FALSE

Initializing(flag) == flag

\* A call of initializeModel, up to its first await: the three branches run
\* without interruption (one thread, no await between test and assignment).
CallInitializeModel(p) ==
  /\ imPc[p] = "idle"
  /\ IF embeddingModel
     THEN /\ imPc' = [imPc EXCEPT ![p] = "returned"]
          /\ imResult' = [imResult EXCEPT ![p] = "model"]
          /\ imWaited' = [imWaited EXCEPT ![p] = FALSE]
          /\ UNCHANGED <<isInitializing, loadsStarted>>
     ELSE IF Initializing(isInitializing)
     THEN /\ imPc' = [imPc EXCEPT ![p] = "waiting"]
          /\ imResult' = [imResult EXCEPT ![p] = "none"]
          /\ imWaited' = [imWaited EXCEPT ![p] = TRUE]
          /\ UNCHANGED <<isInitializing, loadsStarted>>
     ELSE /\ isInitializing' = TRUE
          /\ imPc' = [imPc EXCEPT ![p] = "loading"]
          /\ imResult' = [imResult EXCEPT ![p] = "none"]
          /\ imWaited' = [imWaited EXCEPT ![p] = FALSE]
          /\ loadsStarted' = loadsStarted + 1
  /\ UNCHANGED <<embeddingModel, loadsFailed>>

\* The 100 ms timer of a waiting caller fires and the loop condition is false:
\* return embeddingModel, whatever it is by now.
WaitEnds(p) ==
  /\ imPc[p] = "waiting"
  /\ ~isInitializing
  /\ imPc' = [imPc EXCEPT ![p] = "returned"]
  /\ imResult' = [imResult EXCEPT ![p] = IF embeddingModel THEN "model" ELSE "null"]
  /\ UNCHANGED <<embeddingModel, isInitializing, imWaited, loadsStarted, loadsFailed>>

\* embeddingModel = await pipeline(...); isInitializing = false; return
LoadResolves(p) ==
  /\ imPc[p] = "loading"
  /\ embeddingModel' = TRUE
  /\ isInitializing' = FALSE
  /\ imPc' = [imPc EXCEPT ![p] = "returned"]
  /\ imResult' = [imResult EXCEPT ![p] = "model"]
  /\ UNCHANGED <<imWaited, loadsStarted, loadsFailed>>

\* Variant: the catch block rethrows without resetting isInitializing.
LoadRejectsKeepsFlag(p) ==
  /\ imPc[p] = "loading"
  /\ loadsFailed < MaxLoadFailures
  /\ loadsFailed' = loadsFailed + 1
  /\ imPc' = [imPc EXCEPT ![p] = "returned"]
  /\ imResult' = [imResult EXCEPT ![p] = "error"]
  /\ UNCHANGED <<embeddingModel, isInitializing, imWaited, loadsStarted>>

\* catch (error) { isInitializing = false; throw error }
LoadRejects(p) ==
  /\ imPc[p] = "loading"
  /\ loadsFailed < MaxLoadFailures
  /\ isInitializing' = FALSE
  /\ loadsFailed' = loadsFailed + 1
  /\ imPc' = [imPc EXCEPT ![p] = "returned"]
  /\ imResult' = [imResult EXCEPT ![p] = "error"]
  /\ UNCHANGED <<embeddingModel, imWaited, loadsStarted>>

\* The caller goes on and may call again later.
CallerContinues(p) ==
  /\ imPc[p] = "returned"
  /\ imPc' = [imPc EXCEPT ![p] = "idle"]
  /\ UNCHANGED <<embeddingModel, isInitializing, imResult, imWaited, loadsStarted,
                 loadsFailed>>

\* generateEmbedding(text) for a non-blank text, given how its call of
\* initializeModel settled: null without a model (if (!model) return null, and
\* the catch block when the call threw), the vector otherwise.
generateEmbedding(settled) == IF settled = "model" THEN "vector" ELSE "null"

initRest == <<cycleVars, sharedVars, obsVars, paVars, fanVars, scoreVars, credVars, enrichVars, signupVars, scrapeVars, backfillVars>>

InitModelNext ==
  \E p \in Callers :
    \/ CallInitializeModel(p) /\ UNCHANGED initRest
    \/ WaitEnds(p) /\ UNCHANGED initRest
    \/ LoadResolves(p) /\ UNCHANGED initRest
    \/ LoadRejects(p) /\ UNCHANGED initRest
    \/ CallerContinues(p) /\ UNCHANGED initRest

\* ===================================================== relevance calls
Ransomware == <<"r", "a", "n", "s", "o", "m", "w", "a", "r", "e">>
RansomwareTitle ==
  <<"R", "a", "n", "s", "o", "m", "w", "a", "r", "e", " ", "g", "a", "n", "g", " ", "t", "a", "r", "g", "e", "t", "s", " ", "h", "o", "s", "p", "i", "t", "a", "l", "s">>

\* Articles and interest strings the scorers are called with.
ScoredTitles == {<<>>, <<"M", "a", "l">>, <<"c", "+", "+">>, RansomwareTitle}
ScoredContents == {<<>>, <<"m", "a", "l", " ", "m", "a", "l">>,
                   <<"m", "a", "l", "m", "a", "l", "m", "a", "l", "m", "a", "l", "m", "a", "l">>}
ScoredSummaries == {<<>>, <<"M", "A", "L">>}
ScoredTags == {<<>>, <<Ransomware>>, << <<"m", "a", "l">>, <<" ", "M", "a", "l", "x">>, <<"m", "a">> >>}
ScoredArticles == [title : ScoredTitles, content : ScoredContents,
                   summary : ScoredSummaries, tags : ScoredTags]
Interests == {<<>>, <<" ">>, <<"M", "a", "l">>, <<"m", "a", "l", "t">>, <<"c", "+", "+">>,
              Ransomware}

\* calculateRelevanceScore(article, user.category) in sendBatchArticleNotification
ScoreForNotification ==
  \E a \in ScoredArticles, i \in Interests :
    /\ scSide' = "notification"
    /\ scArticle' = a
    /\ scInterest' = i
    /\ scResult' = calculateRelevanceScore(a, i)

\* calculateRelevanceScore(article, category) in the article lists of the frontend
ScoreForSearch ==
  \E a \in ScoredArticles, i \in Interests :
    /\ scSide' = "search"
    /\ scArticle' = a
    /\ scInterest' = i
    /\ scResult' = calculateRelevanceScoreFrontend(a, i)

scoreRest == <<cycleVars, sharedVars, obsVars, paVars, fanVars, initVars, credVars, enrichVars, signupVars, scrapeVars, backfillVars>>

ScoreNext ==
  \/ ScoreForNotification /\ UNCHANGED scoreRest
  \/ ScoreForSearch /\ UNCHANGED scoreRest

\* ========================================================= credibility
\* A JavaScript number: an integer, or NaN.
Number(n) == [nan |-> FALSE, v |-> n]
NaN == [nan |-> TRUE, v |-> 0]

\* A field of the parsed rubric: missing, a number, or something that is not
\* a number (a word, an object).
Absent == [kind |-> "absent", v |-> 0]
Value(n) == [kind |-> "number", v |-> n]
NotANumber == [kind |-> "other", v |-> 0]

\* getSourceReliabilityScore: 20 for a listed domain, 10 for any other and
\* for a url that does not parse (UNRELIABLE_SOURCES is empty).
getSourceReliabilityScore(url) == IF url = "reliable" THEN 20 ELSE 10

\* isRecent(article.publishedDate) ? 5 : 2
TemporalScore(publishedDate) == IF publishedDate = "recent" THEN 5 ELSE 2

assessAuthorCredibility(author) ==
  CASE author = "blank" -> 0
    [] author = "credential" -> 5
    [] OTHER -> 2

\* (field || dflt): the default replaces a missing field and the number 0.
OrDefault(field, dflt) ==
  IF field.kind = "absent" \/ (field.kind = "number" /\ field.v = 0)
  THEN Value(dflt) ELSE field

Clamp(x, lo, hi) == Min(Max(x, lo), hi)

\* The four weighted parts in hundredths of a point, and Math.round of their
\* sum; a part that is not a number makes the sum NaN.
AiScore(aiAnalysis) ==
  LET factual == OrDefault(aiAnalysis.factualAccuracy, 65)
      sensational == OrDefault(aiAnalysis.sensationalism, 35)
      bias == OrDefault(aiAnalysis.bias, 65)
      citation == OrDefault(aiAnalysis.citationQuality, 55)
  IN IF \E f \in {factual, sensational, bias, citation} : f.kind = "other"
     THEN NaN
     ELSE Number((Clamp(factual.v * 30, 0, 3000)
                  + Clamp((100 - sensational.v) * 20, 0, 2000)
                  + Clamp(bias.v * 15, 0, 1500)
                  + Clamp(citation.v * 15, 0, 1500) + 50) \div 100)

\* Variant: the source score is returned as it is, not scaled to 0-100.
SourceOnlyUnscaled(article) ==
  [path |-> "sourceOnly", raised |-> FALSE,
   final |-> Number(getSourceReliabilityScore(article.url)),
   aiScore |-> Number(0), sourceScore |-> getSourceReliabilityScore(article.url),
   temporalScore |-> 2, authorScore |-> 0]

SourceOnly(article) ==
  [path |-> "sourceOnly", raised |-> FALSE,
   final |-> Number(getSourceReliabilityScore(article.url) * 5),
   aiScore |-> Number(0), sourceScore |-> getSourceReliabilityScore(article.url),
   temporalScore |-> 2, authorScore |-> 0]

\* The error thrown inside the try block of assessCredibility, if any: building
\* the prompt reads article.content.substring, the completion call rejects,
\* response.choices[0] is undefined, responseText is null (match throws in the
\* try and again in the fallback), or aiAnalysis is null.
InternalError(article, client, answer) ==
  IF ~client THEN "none"
  ELSE IF article.content = "missing" THEN "prompt"
  ELSE IF answer \in {"callError", "emptyChoices", "nullContent", "jsonNull"} THEN answer
  ELSE "none"

\* try { ... } catch (error) { return Math.round(sourceScore * 5) }
\* Variant: only the completion call is inside the try block.
AssessCatchesCallOnly(error) == error = "callError"

AssessCatches(error) == TRUE

\* assessCredibility(article) for an answer of the AI:
\*   client   an AI client is configured
\*   answer   "callError", "emptyChoices", "nullContent", "jsonNull", "json"
\*            (an object, a number, a string or an array) or "text" (not
\*            JSON: the fields are what the regular expressions pick up)
assessCredibility(article, client, answer, aiAnalysis) ==
  IF ~client THEN SourceOnly(article)
  ELSE IF InternalError(article, client, answer) # "none"
  THEN IF AssessCatches(InternalError(article, client, answer))
       THEN SourceOnly(article)
       ELSE [SourceOnly(article) EXCEPT !.path = "raised", !.raised = TRUE]
  ELSE LET aiScore == AiScore(aiAnalysis)
           sourceScore == getSourceReliabilityScore(article.url)
           temporalScore == TemporalScore(article.publishedDate)
           authorScore == assessAuthorCredibility(article.author)
       IN [path |-> "rubric", raised |-> FALSE,
           final |-> IF aiScore.nan THEN NaN
                     ELSE Number(Clamp(aiScore.v + sourceScore + temporalScore + authorScore,
                                       0, 100)),
           aiScore |-> aiScore, sourceScore |-> sourceScore,
           temporalScore |-> temporalScore, authorScore |-> authorScore]

\* The articles assessed and the rubrics the AI may answer with.
AssessedArticles == [url : {"reliable", "unknown", "malformed", "missing"},
                     publishedDate : {"recent", "old", "missing"},
                     author : {"blank", "credential", "named"},
                     content : {"present", "missing"}]
WithContent == {article \in AssessedArticles : article.content = "present"}
JsonFields == {Absent, Value(0), Value(20), Value(100), Value(150), Value(0 - 40), NotANumber}
\* parseInt of a run of digits, or no match
TextFields == {Absent, Value(0), Value(100), Value(150)}
Rubrics(fields) == [factualAccuracy : fields, sensationalism : fields, bias : fields,
                    citationQuality : fields]
NoRubric == [factualAccuracy |-> Absent, sensationalism |-> Absent, bias |-> Absent,
             citationQuality |-> Absent]

NoInput == [article |-> [url |-> "unknown", publishedDate |-> "old", author |-> "blank",
                         content |-> "present"],
            client |-> FALSE, answer |-> "none", aiAnalysis |-> NoRubric]

NothingAssessed ==
  /\ crPc = "idle"
  /\ crInput = NoInput
  /\ crResult = SourceOnly(NoInput.article)

Assess(article, client, answer, aiAnalysis) ==
  /\ crPc' = "done"
  /\ crInput' = [article |-> article, client |-> client, answer |-> answer,
                 aiAnalysis |-> aiAnalysis]
  /\ crResult' = assessCredibility(article, client, answer, aiAnalysis)

\* No client, or an error inside the try block: the prompt cannot be built,
\* the completion fails, it has no choices, its content is null or the JSON
\* null.
AssessDegraded ==
  /\ crPc = "idle"
  /\ \/ \E article \in AssessedArticles :
          \/ Assess(article, FALSE, "none", NoRubric)
          \/ article.content = "missing" /\ Assess(article, TRUE, "none", NoRubric)
     \/ \E article \in WithContent :
          \E answer \in {"callError", "emptyChoices", "nullContent", "jsonNull"} :
            Assess(article, TRUE, answer, NoRubric)

\* The completion is JSON.
AssessJson ==
  /\ crPc = "idle"
  /\ \E article \in WithContent, aiAnalysis \in Rubrics(JsonFields) :
       Assess(article, TRUE, "json", aiAnalysis)

\* The completion is not JSON: the fallback extracts the scores.
AssessText ==
  /\ crPc = "idle"
  /\ \E article \in WithContent, aiAnalysis \in Rubrics(TextFields) :
       Assess(article, TRUE, "text", aiAnalysis)

CredReturn ==
  /\ crPc = "done"
  /\ crPc' = "idle"
  /\ crInput' = NoInput
  /\ crResult' = SourceOnly(NoInput.article)

credRest == <<cycleVars, sharedVars, obsVars, paVars, fanVars, initVars, scoreVars, enrichVars, signupVars, scrapeVars, backfillVars>>

CredNext ==
  \/ AssessDegraded /\ UNCHANGED credRest
  \/ AssessJson /\ UNCHANGED credRest
  \/ AssessText /\ UNCHANGED credRest
  \/ CredReturn /\ UNCHANGED credRest

\* ==================================================== enriched article
\* Scraped articles: where they are from and the tags found on the page.
RawArticles == [url : {"reliable", "unknown"}, publishedDate : {"recent"},
                author : {"named"}, content : {"present"},
                tags : {<<>>, <<"p-tag">>}]

\* The rubric the credibility completion answers with, when it answers.
SampleRubric == [factualAccuracy |-> Value(20), sensationalism |-> Value(20),
                 bias |-> Value(20), citationQuality |-> Value(20)]

\* What the collaborators do for one article: Outcomes with the credibility
\* service as assessCredibility (which resolves), and the answer to its own
\* completion.
EnrichOutcomes ==
  {x \in [o : Outcomes, credAnswer : {"none", "callError", "json"}] :
     /\ x.o.cred = "score"
     /\ x.o.emb # "throws"
     /\ (x.credAnswer = "none") <=> ~x.o.client}

\* { ...article, ...aiData }: the fields of the enriched article.  aiData
\* always carries summary, keyPoints, tags and sentiment, so they replace the
\* article's; embedding is a key of aiData except in the no-client branch.
EnrichedArticle(raw, x) ==
  LET r == processArticle(raw, x.o)
      fromAI == r.mode \in {"structured", "heuristic"}
  IN [url |-> raw.url,
      mode |-> r.mode,
      summary |-> IF fromAI THEN "parsed" ELSE "",
      keyPoints |-> IF fromAI THEN <<"parsed">> ELSE <<>>,
      tags |-> IF fromAI THEN <<"parsed">> ELSE <<>>,
      sentiment |-> IF fromAI THEN "parsed" ELSE "neutral",
      credibilityScore |->
        assessCredibility(raw, x.o.client, x.credAnswer, SampleRubric).final,
      embedding |-> r.embedding,
      credCalls |-> r.credCalls,
      embCalls |-> r.embCalls]

NoRaw == [url |-> "unknown", publishedDate |-> "recent", author |-> "named",
          content |-> "present", tags |-> <<>>]
NoOutcome == [o |-> [client |-> FALSE, ai |-> "callError", cred |-> "score", emb |-> "null"],
              credAnswer |-> "none"]

NothingEnriched ==
  /\ enPc = "idle"
  /\ enRaw = NoRaw
  /\ enOutcome = NoOutcome
  /\ enEnriched = EnrichedArticle(NoRaw, NoOutcome)

EnrichOne(raw, x) ==
  /\ enPc' = "done"
  /\ enRaw' = raw
  /\ enOutcome' = x
  /\ enEnriched' = EnrichedArticle(raw, x)

\* getAIClient() returns null: the branch of processArticle that skips the AI.
EnrichWithoutClient ==
  /\ enPc = "idle"
  /\ \E raw \in RawArticles, x \in EnrichOutcomes : ~x.o.client /\ EnrichOne(raw, x)

EnrichWithClient ==
  /\ enPc = "idle"
  /\ \E raw \in RawArticles, x \in EnrichOutcomes : x.o.client /\ EnrichOne(raw, x)

EnrichedPushed ==
  /\ enPc = "done"
  /\ enPc' = "idle"
  /\ enRaw' = NoRaw
  /\ enOutcome' = NoOutcome
  /\ enEnriched' = EnrichedArticle(NoRaw, NoOutcome)

enrichRest == <<cycleVars, sharedVars, obsVars, paVars, fanVars, initVars, scoreVars,
                credVars, signupVars, scrapeVars, backfillVars>>

ArticleNext ==
  \/ EnrichWithoutClient /\ UNCHANGED enrichRest
  \/ EnrichWithClient /\ UNCHANGED enrichRest
  \/ EnrichedPushed /\ UNCHANGED enrichRest

\* ============================================================== signup
Emails == {"a@x.io", "b@x.io"}

\* A field of req.body: left out, or a string.
Missing == [given |-> FALSE, v |-> <<>>]
Given(s) == [given |-> TRUE, v |-> s]

SignupBodies ==
  [email : Emails,
   category : {Missing, Given(<<>>), Given(<<" ">>), Given(<<"a", "i">>),
               Given(<<"m", "l">>)},
   semanticQuery : {Missing, Given(<<" ">>), Given(<<"a", "b">>),
                    Given(<<"m", "a", "l">>)}]

\* !value  for a body field
Falsy(f) == ~f.given \/ f.v = <<>>

\* value && value.trim()
NonBlank(f) == ~Falsy(f) /\ trim(f.v) # <<>>

\* isLength({ min: 3, ... }) on semanticQuery
MinSemanticQuery == 3

\* .optional({ checkFalsy: true }).trim().notEmpty().isLength({ min })
ValidField(f, min) == Falsy(f) \/ (trim(f.v) # <<>> /\ Len(trim(f.v)) >= min)

\* validateSignup: the two field chains and the custom check on the body.
validateSignup(body) ==
  /\ ValidField(body.category, 1)
  /\ ValidField(body.semanticQuery, MinSemanticQuery)
  /\ (NonBlank(body.category) \/ NonBlank(body.semanticQuery))

\* The paths userSchema declares.
SchemaPaths == {"email", "category", "minCredibility"}

\* new User(userData): a strict schema keeps the declared paths only.
Document(userData) ==
  [email |-> userData.email,
   category |-> IF "category" \in SchemaPaths THEN userData.category ELSE Missing,
   semanticQuery |-> IF "semanticQuery" \in SchemaPaths THEN userData.semanticQuery
                     ELSE Missing]

\* user.save() validation: category is required.
SchemaValid(doc) == doc.category.given /\ doc.category.v # <<>>

\* POST /signup: validateSignup, then the controller.
signup(body, users) ==
  LET userData ==
        [email |-> body.email,
         category |-> IF NonBlank(body.category) THEN Given(trim(body.category.v))
                      ELSE Missing,
         semanticQuery |-> IF NonBlank(body.semanticQuery)
                           THEN Given(trim(body.semanticQuery.v)) ELSE Missing]
      user == Document(userData)
  IN IF ~validateSignup(body)
     THEN [status |-> 400, by |-> "validateSignup", users |-> users]
     ELSE IF \E u \in users : u.email = body.email
     THEN [status |-> 409, by |-> "findOne", users |-> users]
     ELSE IF ~SchemaValid(user)
     THEN [status |-> 400, by |-> "ValidationError", users |-> users]
     ELSE [status |-> 201, by |-> "none", users |-> users \cup {user}]

NoBody == [email |-> "a@x.io", category |-> Missing, semanticQuery |-> Missing]
NoResponse == [status |-> 0, by |-> "none"]

NoSignup ==
  /\ suPc = "idle"
  /\ suBody = NoBody
  /\ suBefore = {}
  /\ suResult = NoResponse
  /\ subscribers = {}

SignupAnswered(body, by) ==
  LET r == signup(body, subscribers)
  IN /\ r.by = by
     /\ suPc' = "done"
     /\ suBody' = body
     /\ suBefore' = subscribers
     /\ suResult' = [status |-> r.status, by |-> r.by]
     /\ subscribers' = r.users

SignupInvalid ==
  /\ suPc = "idle"
  /\ \E body \in SignupBodies : SignupAnswered(body, "validateSignup")

SignupDuplicate ==
  /\ suPc = "idle"
  /\ \E body \in SignupBodies : SignupAnswered(body, "findOne")

SignupSchemaRejects ==
  /\ suPc = "idle"
  /\ \E body \in SignupBodies : SignupAnswered(body, "ValidationError")

SignupCreates ==
  /\ suPc = "idle"
  /\ \E body \in SignupBodies : SignupAnswered(body, "none")

SignupResponded ==
  /\ suPc = "done"
  /\ suPc' = "idle"
  /\ suBody' = NoBody
  /\ suBefore' = {}
  /\ suResult' = NoResponse
  /\ UNCHANGED subscribers

\* DELETE /:id
deleteUser ==
  /\ suPc = "idle"
  /\ \E u \in subscribers : subscribers' = subscribers \ {u}
  /\ UNCHANGED <<suPc, suBody, suBefore, suResult>>

signupRest == <<cycleVars, sharedVars, obsVars, paVars, fanVars, initVars, scoreVars,
                credVars, enrichVars, scrapeVars, backfillVars>>

SignupNext ==
  \/ SignupInvalid /\ UNCHANGED signupRest
  \/ SignupDuplicate /\ UNCHANGED signupRest
  \/ SignupSchemaRejects /\ UNCHANGED signupRest
  \/ SignupCreates /\ UNCHANGED signupRest
  \/ SignupResponded /\ UNCHANGED signupRest
  \/ deleteUser /\ UNCHANGED signupRest

\* ============================================================= scraper
\* articleLinks.slice(0, 20)
LinkLimit == 20

\* Variant: every link found is returned.
ArticleLinksUnlimited(found) == found

\* The number of links extractArticleLinks returns when the index page
\* carries `found` of them.
ArticleLinks(found) == Min(found, LinkLimit)

\* What a detail page can give: the fetch fails, or the page parses with or
\* without a title and a content.
Pages ==
  [fetched : {FALSE}, title : {FALSE}, content : {FALSE}, matches : {FALSE}]
    \cup [fetched : {TRUE}, title : BOOLEAN, content : BOOLEAN, matches : BOOLEAN]

\* scrapeArticle(link): null, or the article.
scrapeArticle(page) ==
  IF ~page.fetched THEN "null"
  ELSE IF ~page.title \/ ~page.content THEN "null"
  ELSE "article"

NotScraping ==
  /\ srPc = "idle"
  /\ srCategory = FALSE
  /\ srFound = 0
  /\ srLinks = 0
  /\ srPos = 0
  /\ srArticles = 0
  /\ srKept = 0
  /\ srKinds = {}
  /\ srSkipped = 0
  /\ srResult = 0

\* fetchHTML(BASE_URL) rejects: extractArticleLinks and scrapeArticles rethrow.
IndexFails ==
  /\ srPc = "idle"
  /\ srPc' = "threw"
  /\ \E category \in BOOLEAN : srCategory' = category
  /\ UNCHANGED <<srFound, srLinks, srPos, srArticles, srKept, srKinds, srSkipped, srResult>>

IndexLoaded ==
  /\ srPc = "idle"
  /\ srPc' = "scraping"
  /\ \E category \in BOOLEAN : srCategory' = category
  /\ \E found \in 0..MaxLinksFound :
       /\ srFound' = found
       /\ srLinks' = ArticleLinks(found)
  /\ UNCHANGED <<srPos, srArticles, srKept, srKinds, srSkipped, srResult>>

\* One iteration of the loop over articleLinks.
Visit(page) ==
  /\ srPos' = srPos + 1
  /\ IF scrapeArticle(page) = "null"
     THEN /\ srSkipped' = srSkipped + 1
          /\ UNCHANGED <<srArticles, srKept, srKinds>>
     ELSE /\ srArticles' = srArticles + 1
          /\ srKept' = IF srCategory /\ ~page.matches THEN srKept ELSE srKept + 1
          /\ srKinds' = srKinds \cup {[title |-> page.title, content |-> page.content]}
          /\ UNCHANGED srSkipped
  /\ UNCHANGED <<srPc, srCategory, srFound, srLinks, srResult>>

PageFails ==
  /\ srPc = "scraping" /\ srPos < srLinks
  /\ \E page \in Pages : ~page.fetched /\ Visit(page)

PageIncomplete ==
  /\ srPc = "scraping" /\ srPos < srLinks
  /\ \E page \in Pages : page.fetched /\ ~(page.title /\ page.content) /\ Visit(page)

PageComplete ==
  /\ srPc = "scraping" /\ srPos < srLinks
  /\ \E page \in Pages : page.fetched /\ page.title /\ page.content /\ Visit(page)

\* filterByCategory(articles, category), then return.
ScrapeReturns ==
  /\ srPc = "scraping" /\ srPos = srLinks
  /\ srPc' = "returned"
  /\ srResult' = srKept
  /\ UNCHANGED <<srCategory, srFound, srLinks, srPos, srArticles, srKept, srKinds, srSkipped>>

ScrapeSettled ==
  /\ srPc \in {"returned", "threw"}
  /\ srPc' = "idle"
  /\ srCategory' = FALSE
  /\ srFound' = 0
  /\ srLinks' = 0
  /\ srPos' = 0
  /\ srArticles' = 0
  /\ srKept' = 0
  /\ srKinds' = {}
  /\ srSkipped' = 0
  /\ srResult' = 0

scrapeRest == <<cycleVars, sharedVars, obsVars, paVars, fanVars, initVars, scoreVars,
                credVars, enrichVars, signupVars, backfillVars>>

ScrapeNext ==
  \/ IndexFails /\ UNCHANGED scrapeRest
  \/ IndexLoaded /\ UNCHANGED scrapeRest
  \/ PageFails /\ UNCHANGED scrapeRest
  \/ PageIncomplete /\ UNCHANGED scrapeRest
  \/ PageComplete /\ UNCHANGED scrapeRest
  \/ ScrapeReturns /\ UNCHANGED scrapeRest
  \/ ScrapeSettled /\ UNCHANGED scrapeRest

\* ================================================== embedding back-fill
\* A stored article: the fields enrichment produced (taken together) and the
\* embedding.  "absent" is a record without the key, "null" the schema default.
Embeddings == {"absent", "null", "empty", "vector"}
Records == [exists : {TRUE}, enriched : {"full", "degraded"}, embedding : Embeddings]
NoRecord == [exists |-> FALSE, enriched |-> "none", embedding |-> "absent"]

\* { $or: [ { embedding: { $exists: false } }, { embedding: null },
\*          { embedding: { $size: 0 } } ] }
WithoutEmbedding(record) ==
  record.exists /\ record.embedding \in {"absent", "null", "empty"}

\* Article.find(...) of the script: the matching urls, in stored order.
RECURSIVE FoundFrom(_, _)
FoundFrom(st, u) ==
  IF u > NumUrls THEN <<>>
  ELSE (IF WithoutEmbedding(st[u]) THEN <<u>> ELSE <<>>) \o FoundFrom(st, u + 1)

\* Variant: the update replaces the document by the fields it names.
UpdateOneReplaces(record, embedding) ==
  [exists |-> TRUE, enriched |-> "none", embedding |-> embedding]

\* Article.updateOne({ _id }, { $set: { embedding } })
UpdateOne(record, embedding) ==
  IF record.exists THEN [record EXCEPT !.embedding = embedding] ELSE record

NoBackfill ==
  /\ bfStore = [u \in Urls |-> NoRecord]
  /\ bfPc = "idle"
  /\ bfFound = <<>>
  /\ bfPos = 0
  /\ bfSuccess = 0
  /\ bfErrors = 0

\* new Article(articleData).save() of the ingestion cycle: an insert, refused
\* by the unique index when the url is stored already.
InsertArticle ==
  \E u \in Urls, record \in Records :
    /\ bfStore' = IF bfStore[u].exists THEN bfStore ELSE [bfStore EXCEPT ![u] = record]
    /\ UNCHANGED <<bfPc, bfFound, bfPos, bfSuccess, bfErrors>>

\* The script starts: find the articles without an embedding; exit if none.
BackfillStart ==
  /\ bfPc = "idle"
  /\ bfFound' = FoundFrom(bfStore, 1)
  /\ bfPc' = IF Len(bfFound') = 0 THEN "exited" ELSE "running"
  /\ bfPos' = 1
  /\ bfSuccess' = 0
  /\ bfErrors' = 0
  /\ UNCHANGED bfStore

\* generateArticleEmbedding gave a vector and updateOne resolved.
BackfillEmbeds ==
  /\ bfPc = "running" /\ bfPos <= Len(bfFound)
  /\ bfStore' = [bfStore EXCEPT ![bfFound[bfPos]] = UpdateOne(@, "vector")]
  /\ bfSuccess' = bfSuccess + 1
  /\ bfPos' = bfPos + 1
  /\ UNCHANGED <<bfPc, bfFound, bfErrors>>

\* generateArticleEmbedding gave null or an empty array, or updateOne rejected.
BackfillFails ==
  /\ bfPc = "running" /\ bfPos <= Len(bfFound)
  /\ bfErrors' = bfErrors + 1
  /\ bfPos' = bfPos + 1
  /\ UNCHANGED <<bfStore, bfPc, bfFound, bfSuccess>>

\* process.exit(0) after the loop.
BackfillExit ==
  /\ bfPc = "running" /\ bfPos > Len(bfFound)
  /\ bfPc' = "exited"
  /\ UNCHANGED <<bfStore, bfFound, bfPos, bfSuccess, bfErrors>>

\* The script is run again.
BackfillAgain ==
  /\ bfPc = "exited"
  /\ bfPc' = "idle"
  /\ bfFound' = <<>>
  /\ bfPos' = 0
  /\ bfSuccess' = 0
  /\ bfErrors' = 0
  /\ UNCHANGED bfStore

backfillRest == <<cycleVars, sharedVars, obsVars, paVars, fanVars, initVars, scoreVars,
                  credVars, enrichVars, signupVars, scrapeVars>>

BackfillNext ==
  \/ InsertArticle /\ UNCHANGED backfillRest
  \/ BackfillStart /\ UNCHANGED backfillRest
  \/ BackfillEmbeds /\ UNCHANGED backfillRest
  \/ BackfillFails /\ UNCHANGED backfillRest
  \/ BackfillExit /\ UNCHANGED backfillRest
  \/ BackfillAgain /\ UNCHANGED backfillRest

\* ------------------------------------------------------- specification
NothingScored ==
  /\ scSide = "none"
  /\ scArticle = [title |-> <<>>, content |-> <<>>, summary |-> <<>>, tags |-> <<>>]
  /\ scInterest = <<>>
  /\ scResult = Null

ModelNotLoaded ==
  /\ embeddingModel = FALSE
  /\ isInitializing = FALSE
  /\ imPc = [p \in Callers |-> "idle"]
  /\ imResult = [p \in Callers |-> "none"]
  /\ imWaited = [p \in Callers |-> FALSE]
  /\ loadsStarted = 0
  /\ loadsFailed = 0

FanIdle ==
  /\ fnPc = "idle"
  /\ fnExit = "none"
  /\ fnSmtp = FALSE
  /\ fnArticles = <<>>
  /\ fnUsers = {}
  /\ userArticleMap = [u \in UserIds |-> <<>>]
  /\ sendState = [u \in UserIds |-> "none"]
  /\ fnMail = [u \in UserIds |-> NoMail]
  /\ successCount = 0
  /\ failureCount = 0

PaIdle ==
  /\ paInput = <<>>
  /\ paPos = 0
  /\ paOutput = <<>>
  /\ paCalls = <<>>

Init ==
  /\ store = [u \in Urls |-> 0]
  /\ pc = [c \in Cycles |-> "idle"]
  /\ scrapedArticles = [c \in Cycles |-> <<>>]
  /\ existingUrls = [c \in Cycles |-> {}]
  /\ newArticles = [c \in Cycles |-> <<>>]
  /\ processedArticles = [c \in Cycles |-> <<>>]
  /\ idx = [c \in Cycles |-> 0]
  /\ savedArticles = [c \in Cycles |-> <<>>]
  /\ skippedCount = [c \in Cycles |-> 0]
  /\ notified = {}
  /\ seenAtCheck = [c \in Cycles |-> {}]
  /\ inserted = [c \in Cycles |-> <<>>]
  /\ exit = [c \in Cycles |-> "none"]
  /\ did = [c \in Cycles |-> {}]
  /\ handed = [u \in Urls |-> 0]
  /\ unhandled = FALSE
  /\ lastDone = NoRun
  /\ failed = FALSE
  /\ rerun = "no"
  /\ PaIdle
  /\ FanIdle
  /\ ModelNotLoaded
  /\ NothingScored
  /\ NothingAssessed
  /\ NothingEnriched
  /\ NoSignup
  /\ NotScraping
  /\ NoBackfill

\* Invocations overlap freely: initializeScheduler starts one per cron tick
\* and one at startup.
Next ==
  \E c \in Cycles :
    \/ Trigger(c) /\ UNCHANGED obsVars
    \/ ScrapeThrows(c) /\ UNCHANGED obsVars
    \/ Scrape(c, RaceResults) /\ UNCHANGED obsVars
    \/ FindThrows(c) /\ UNCHANGED obsVars
    \/ Dedup(c) /\ UNCHANGED obsVars
    \/ Enrich(c) /\ UNCHANGED obsVars
    \/ RecheckThrows(c) /\ UNCHANGED obsVars
    \/ Recheck(c) /\ UNCHANGED obsVars
    \/ Save(c) /\ UNCHANGED obsVars
    \/ NothingSaved(c) /\ UNCHANGED obsVars
    \/ Notify(c) /\ UNCHANGED obsVars
    \/ NotifyThrows(c) /\ UNCHANGED obsVars

Spec == Init /\ [][Next]_vars

\* ------------------------------------------------- one cycle after another
\* The slot that runs when cycles follow each other without overlap.
First == CHOOSE c \in Cycles : \A d \in Cycles : c <= d

\* An article left the insert loop neither saved nor skipped: its re-check or
\* its save raised an error other than the duplicate-key error.
LostArticle(c) ==
  /\ pc[c] \in {"recheck", "save"}
  /\ pc'[c] # "save"
  /\ Len(savedArticles'[c]) + skippedCount'[c] = Len(savedArticles[c]) + skippedCount[c]

SameAs(done, urls) ==
  IF done.ran /\ done.urls = urls
  THEN (IF done.clean THEN "sameClean" ELSE "same")
  ELSE "no"

\* Bookkeeping over the steps of slot c: which urls the last completed cycle
\* scraped, whether a lookup or an insert of it failed, and whether the
\* running cycle scraped the same urls.
Observe(c) ==
  /\ failed' = IF pc[c] = "idle" THEN FALSE
               ELSE failed \/ LostArticle(c) \/ exit'[c] \in {"scrapeThrew", "findThrew"}
  /\ lastDone' = IF pc[c] # "idle" /\ pc'[c] = "idle"
                 THEN IF exit'[c] = "scrapeThrew" THEN NoRun
                      ELSE [urls |-> Range(scrapedArticles[c]), ran |-> TRUE,
                            clean |-> ~failed']
                 ELSE lastDone
  /\ rerun' = IF pc[c] = "idle" THEN "no"
              ELSE IF pc[c] = "extracting" /\ pc'[c] = "dedup"
              THEN SameAs(lastDone, Range(scrapedArticles'[c]))
              ELSE rerun

SeqNext ==
  \/ Trigger(First) /\ Observe(First)
  \/ ScrapeThrows(First) /\ Observe(First)
  \/ Scrape(First, ScrapeResults) /\ Observe(First)
  \/ FindThrows(First) /\ Observe(First)
  \/ Dedup(First) /\ Observe(First)
  \/ Enrich(First) /\ Observe(First)
  \/ RecheckThrows(First) /\ Observe(First)
  \/ Recheck(First) /\ Observe(First)
  \/ Save(First) /\ Observe(First)
  \/ NothingSaved(First) /\ Observe(First)
  \/ Notify(First) /\ Observe(First)
  \/ NotifyThrows(First) /\ Observe(First)

SeqSpec == Init /\ [][SeqNext]_vars

\* --------------------------------------------- processArticles on its own
PAInit == Init

PAStart ==
  /\ paInput = <<>>
  /\ paPos = 0
  /\ \E in \in SeqsUpTo(Urls, MaxBatch) :
       /\ Len(in) > 0
       /\ paInput' = in
  /\ UNCHANGED <<paPos, paOutput, paCalls>>

\* for (const article of articles) { try { ... } catch { ... } }
PAStep ==
  /\ paPos < Len(paInput)
  /\ \E o \in Outcomes :
       /\ paOutput' = ProcessArticlesStep(paOutput, paInput[paPos + 1], o)
       /\ paCalls' = Append(paCalls, CallsOf(paInput[paPos + 1], o))
  /\ paPos' = paPos + 1
  /\ UNCHANGED paInput

\* return processedArticles; and the next call
PAReturn ==
  /\ paInput # <<>>
  /\ paPos = Len(paInput)
  /\ paInput' = <<>>
  /\ paPos' = 0
  /\ paOutput' = <<>>
  /\ paCalls' = <<>>

paRest == <<cycleVars, sharedVars, obsVars, fanVars, initVars, scoreVars, credVars, enrichVars, signupVars, scrapeVars, backfillVars>>

PANext ==
  \/ PAStart /\ UNCHANGED paRest
  \/ PAStep /\ UNCHANGED paRest
  \/ PAReturn /\ UNCHANGED paRest

EnrichSpec == PAInit /\ [][PANext]_vars

\* ------------------------------- notifyUsersAboutBatchArticles on its own
FanDone(how) ==
  /\ fnPc' = "done"
  /\ fnExit' = how

\* The call, up to `await User.find({}).lean()`.
FanStart ==
  /\ fnPc = "idle"
  /\ \E as \in FanInputs, us \in SUBSET UserIds, smtp \in BOOLEAN :
       /\ fnArticles' = as
       /\ fnUsers' = us
       /\ fnSmtp' = smtp
       /\ IF ~smtp THEN FanDone("smtpOff")
          ELSE IF Len(as) = 0 THEN FanDone("noArticles")
          ELSE fnPc' = "finding" /\ fnExit' = "none"
  /\ UNCHANGED <<userArticleMap, sendState, fnMail, successCount, failureCount>>

\* User.find rejects: catch (error) { log }.
FanFindThrows ==
  /\ fnPc = "finding"
  /\ FanDone("threw")
  /\ UNCHANGED <<fnSmtp, fnArticles, fnUsers, userArticleMap, sendState, fnMail,
                 successCount, failureCount>>

\* The users arrive: userArticleMap is built and sendBatchArticleNotification
\* is called for each of its entries; each call runs up to its sendMail.
FanMatch ==
  /\ fnPc = "finding"
  /\ LET map == [u \in UserIds |->
                   IF u \in fnUsers THEN MatchingArticles(fnArticles, SampleUsers[u])
                   ELSE <<>>]
         mail == [u \in UserIds |->
                    IF map[u] = <<>> THEN NoMail
                    ELSE BatchMail(map[u], SampleUsers[u].category)]
     IN IF fnUsers = {}
        THEN /\ FanDone("noUsers")
             /\ UNCHANGED <<userArticleMap, sendState, fnMail>>
        ELSE IF \A u \in UserIds : map[u] = <<>>
        THEN /\ FanDone("noMatch")
             /\ UNCHANGED <<userArticleMap, sendState, fnMail>>
        ELSE /\ userArticleMap' = map
             /\ fnMail' = mail
             /\ sendState' = [u \in UserIds |->
                                IF map[u] = <<>> THEN "none"
                                ELSE IF mail[u].built THEN "pending" ELSE "failed"]
             /\ fnPc' = "sending"
             /\ UNCHANGED fnExit
  /\ UNCHANGED <<fnSmtp, fnArticles, fnUsers, successCount, failureCount>>

\* await emailTransporter.sendMail(mailOptions) resolves: return true.
SendMailResolves(u) ==
  /\ fnPc = "sending"
  /\ sendState[u] = "pending"
  /\ sendState' = [sendState EXCEPT ![u] = "sent"]
  /\ UNCHANGED <<fnPc, fnExit, fnSmtp, fnArticles, fnUsers, userArticleMap, fnMail,
                 successCount, failureCount>>

\* sendMail rejects: the catch of sendBatchArticleNotification returns false.
SendMailRejects(u) ==
  /\ fnPc = "sending"
  /\ sendState[u] = "pending"
  /\ sendState' = [sendState EXCEPT ![u] = "failed"]
  /\ UNCHANGED <<fnPc, fnExit, fnSmtp, fnArticles, fnUsers, userArticleMap, fnMail,
                 successCount, failureCount>>

\* const results = await Promise.allSettled(emailPromises), and the counts.
FanJoin ==
  /\ fnPc = "sending"
  /\ Settled(sendState)
  /\ LET results == {u \in UserIds : userArticleMap[u] # <<>>}
         ok == {u \in results : sendState[u] = "sent"}
     IN /\ successCount' = Cardinality(ok)
        /\ failureCount' = Cardinality(results) - Cardinality(ok)
  /\ FanDone("counted")
  /\ UNCHANGED <<fnSmtp, fnArticles, fnUsers, userArticleMap, sendState, fnMail>>

\* The call has returned; the next one starts from nothing.
FanReturn ==
  /\ fnPc = "done"
  /\ fnPc' = "idle"
  /\ fnExit' = "none"
  /\ fnSmtp' = FALSE
  /\ fnArticles' = <<>>
  /\ fnUsers' = {}
  /\ userArticleMap' = [u \in UserIds |-> <<>>]
  /\ sendState' = [u \in UserIds |-> "none"]
  /\ fnMail' = [u \in UserIds |-> NoMail]
  /\ successCount' = 0
  /\ failureCount' = 0

fanRest == <<cycleVars, sharedVars, obsVars, paVars, initVars, scoreVars, credVars, enrichVars, signupVars, scrapeVars, backfillVars>>

FanNext ==
  \/ FanStart /\ UNCHANGED fanRest
  \/ FanFindThrows /\ UNCHANGED fanRest
  \/ FanMatch /\ UNCHANGED fanRest
  \/ \E u \in UserIds : SendMailResolves(u) /\ UNCHANGED fanRest
  \/ \E u \in UserIds : SendMailRejects(u) /\ UNCHANGED fanRest
  \/ FanJoin /\ UNCHANGED fanRest
  \/ FanReturn /\ UNCHANGED fanRest

FanoutSpec == Init /\ [][FanNext]_vars

InitModelSpec == Init /\ [][InitModelNext]_vars

\* The promise of pipeline(...) settles, and the 100 ms timer of a caller in
\* the wait loop fires: the event loop runs both once they are due.
InitModelFairSpec ==
  /\ Init
  /\ [][InitModelNext]_vars
  /\ \A p \in Callers :
       /\ WF_vars(WaitEnds(p) /\ UNCHANGED initRest)
       /\ WF_vars((LoadResolves(p) \/ LoadRejects(p)) /\ UNCHANGED initRest)

ScoreSpec == Init /\ [][ScoreNext]_vars

CredSpec == Init /\ [][CredNext]_vars

ArticleSpec == Init /\ [][ArticleNext]_vars

SignupSpec == Init /\ [][SignupNext]_vars

ScrapeSpec == Init /\ [][ScrapeNext]_vars

BackfillSpec == Init /\ [][BackfillNext]_vars

\* ==================================================================== claims
InFlight == {c \in Cycles : pc[c] # "idle"}

\* Number of times url u occurs in the saved lists of the running cycles.
SavedCopies(u) ==
  Cardinality({p \in UNION {{<<c, k>> : k \in 1..Len(savedArticles[c])} : c \in Cycles} :
                 savedArticles[p[1]][p[2]] = u})

\* Articles of processedArticles the insert loop of slot c is done with.
Attempted(c) ==
  CASE pc[c] \in {"recheck", "save"} -> idx[c] - 1
    [] pc[c] = "looped" -> Len(processedArticles[c])
    [] OTHER -> 0

\* C1: no url is stored twice; the producers that raced for a url hold it in
\* at most as many saved lists as there are records of it (one), and every
\* article the insert loop is done with was saved, skipped or logged.
C1_DedupInvariant ==
  /\ \A u \in Urls : store[u] <= 1 /\ SavedCopies(u) <= store[u]
  /\ \A c \in Cycles : Len(savedArticles[c]) + skippedCount[c] <= Attempted(c)

\* Two cycles both saw url u as unseen at their bulk check and both went
\* through the insert loop: one record, one saved it, the other skipped it.
C1_Witness ==
  \E c, d \in Cycles : \E u \in Urls :
    /\ c # d
    /\ pc[c] = "looped" /\ pc[d] = "looped"
    /\ u \in Range(newArticles[c]) /\ u \in Range(newArticles[d])
    /\ savedArticles[c] = <<u>>
    /\ savedArticles[d] = <<>> /\ skippedCount[d] >= 1
    /\ store[u] = 1

\* C2: at no time are two executions of fetchAndProcessArticles in flight.
C2_NoOverlap == Cardinality(InFlight) <= 1

C4_FanoutOnlyNewlySaved ==
  /\ \A c \in Cycles : savedArticles[c] = inserted[c]
  /\ \A u \in Urls : handed[u] <= 1

\* A url was handed to the fan-out by one cycle while another cycle, which had
\* it among its new articles, finished its insert loop without saving it.
C4_Witness ==
  \E c \in Cycles : \E u \in Urls :
    /\ handed[u] = 1
    /\ pc[c] = "looped"
    /\ u \in Range(processedArticles[c])
    /\ u \notin Range(savedArticles[c])

\* C5: a stored article is dispatched, or a running cycle still holds it in
\* its saved list for the fan-out (no other step ever dispatches it).
C5_AtLeastOnce ==
  \A u \in Urls :
    store[u] > 0 => (u \in notified \/ \E c \in Cycles : u \in Range(savedArticles[c]))

\* C6: processArticles has pushed one enriched article per article it went
\* through, in input order, so it returns as many as it was given.
C6_OneOutputPerInput ==
  /\ Len(paOutput) = paPos
  /\ \A k \in 1..Len(paOutput) : paOutput[k].url = paInput[k]

\* A batch of two went through, the first article degraded and the second not.
C6_Witness ==
  /\ Len(paInput) = 2
  /\ paPos = 2
  /\ Len(paOutput) = 2
  /\ paOutput[1].mode = "degraded"
  /\ paOutput[2].mode = "structured"

\* C7: no exception escapes fetchAndProcessArticles, and a slot is idle
\* exactly when its invocation has returned.
C7_CycleNeverFails ==
  /\ ~unhandled
  /\ \A c \in Cycles : (pc[c] = "idle") <=> (exit[c] # "running")

\* One invocation ended in the catch after the bulk lookup threw, another after
\* the fan-out threw; both slots are idle.
C7_Witness ==
  \E c, d \in Cycles :
    /\ exit[c] = "findThrew" /\ pc[c] = "idle"
    /\ exit[d] = "fanoutThrew" /\ pc[d] = "idle"

\* C8: every url that was handed to the fan-out is still stored, and a cycle
\* whose fan-out threw or failed has returned normally.
C8_FanoutFailureKeepsStore ==
  /\ \A u \in Urls : handed[u] >= 1 => store[u] >= 1
  /\ \A c \in Cycles :
       exit[c] \in {"fanoutThrew", "fanoutFailed"} => pc[c] = "idle" /\ ~unhandled

\* The fan-out of a cycle threw; the url it had saved is stored and was never
\* dispatched.
C8_Witness ==
  \E c \in Cycles : \E u \in Urls :
    /\ exit[c] = "fanoutThrew"
    /\ handed[u] = 1 /\ store[u] = 1 /\ u \notin notified

\* C9: past the bulk check, the new articles are the scraped ones whose url
\* was not stored at the check, in scrape order; enrichment has gone through a
\* prefix of them, and the insert loop runs over exactly them.
C9_DedupShortCircuit ==
  \A c \in Cycles :
    pc[c] \in {"enriching", "recheck", "save", "looped"} =>
      /\ newArticles[c] =
           SelectSeq(scrapedArticles[c], LAMBDA u : u \notin seenAtCheck[c])
      /\ processedArticles[c] = SubSeq(newArticles[c], 1, Len(processedArticles[c]))
      /\ pc[c] # "enriching" => processedArticles[c] = newArticles[c]
      /\ pc[c] = "looped" => idx[c] = Len(newArticles[c]) + 1

\* Of the scraped articles all but one were stored at the check: one article
\* was enriched and the insert loop ran once.
C9_Witness ==
  \E c \in Cycles :
    /\ pc[c] = "looped"
    /\ Len(scrapedArticles[c]) >= 2
    /\ Cardinality(seenAtCheck[c]) >= 1
    /\ Len(processedArticles[c]) = 1
    /\ idx[c] = 2

\* C10: a cycle that scraped nothing returned without lookup, enrichment,
\* insert or fan-out; a cycle whose urls all existed returned after the lookup
\* alone; no later step ever runs on an empty list.
C10_EarlyExits ==
  \A c \in Cycles :
    /\ exit[c] = "noArticles" => did[c] = {}
    /\ exit[c] = "allExist" => did[c] = {"find"}
    /\ pc[c] \in {"dedup", "enriching", "recheck", "save", "looped"} =>
         scrapedArticles[c] # <<>>
    /\ pc[c] \in {"enriching", "recheck", "save", "looped"} => newArticles[c] # <<>>

\* One invocation returned on an empty scrape and another because every url
\* it scraped was stored.
C10_Witness ==
  \E c, d \in Cycles :
    /\ exit[c] = "noArticles" /\ pc[c] = "idle"
    /\ exit[d] = "allExist" /\ pc[d] = "idle"
    /\ \E u \in Urls : store[u] = 1

\* C11: for every article processArticles went through, the completion was
\* requested at most once and assessCredibility was invoked at most once.
C11_NoRetryWithinCycle ==
  \A k \in 1..Len(paCalls) : paCalls[k].aiCalls <= 1 /\ paCalls[k].credCalls <= 1

\* The text a keyword is looked for in, and case-insensitive containment
\* stated character by character.
TitleAndContent(a) == SampleArticles[a].title \o <<" ">> \o SampleArticles[a].content

ContainsIgnoringCase(text, keyword) ==
  \E i \in 0..(Len(text) - Len(keyword)) :
    \A k \in 1..Len(keyword) :
      toLowerCase(<<text[i + k]>>) = toLowerCase(<<keyword[k]>>)

\* The saved articles a subscriber's interest text occurs in.
ArticlesContaining(interest) ==
  IF interest = <<>> THEN <<>>
  ELSE SelectSeq(fnArticles, LAMBDA a : ContainsIgnoringCase(TitleAndContent(a), interest))

ExpectedFor(u) ==
  IF u \in fnUsers THEN ArticlesContaining(SampleUsers[u].category) ELSE <<>>

IdsOf(list) == [k \in 1..Len(list) |-> list[k].id]

\* C12 as stated: when the fan-out has returned, every subscriber whose
\* keyword occurs in a saved article was dispatched to.
C12_EveryMatchDispatched ==
  fnPc = "done" =>
    \A u \in UserIds : ExpectedFor(u) # <<>> => sendState[u] # "none"

\* C12 amended: when SMTP is configured and the user lookup succeeded, the
\* entry of a subscriber is exactly the saved articles containing the keyword
\* (case-insensitively); a subscriber without a match has no dispatch, a
\* subscriber with a match has one, given exactly the matched articles, and
\* the message built for it lists exactly those.
C12_FanoutMatching ==
  (fnPc = "sending" \/ fnExit \in {"counted", "noMatch", "noUsers"}) =>
    \A u \in UserIds :
      /\ userArticleMap[u] = ExpectedFor(u)
      /\ ExpectedFor(u) = <<>> => sendState[u] = "none" /\ fnMail[u] = NoMail
      /\ ExpectedFor(u) # <<>> => sendState[u] # "none"
      /\ fnMail[u].built =>
           /\ fnMail[u].text = ExpectedFor(u)
           /\ fnMail[u].count = Len(ExpectedFor(u))
           /\ Len(fnMail[u].html) = Len(ExpectedFor(u))
           /\ Range(IdsOf(fnMail[u].html)) = Range(ExpectedFor(u))

\* Three saved articles of which one contains the keyword of subscriber 1
\* (in another case), and a second subscriber without a match: one message
\* with one article went out to the first, nothing to the second.
C12_Witness ==
  /\ fnExit = "counted"
  /\ Len(fnArticles) = 3
  /\ fnUsers = {1, 2}
  /\ Len(ExpectedFor(1)) = 1
  /\ sendState[1] = "sent" /\ fnMail[1].text = ExpectedFor(1)
  /\ sendState[2] = "none"

\* C13: a subscriber with a semanticQuery and no category, whose query text
\* occurs in a saved article, is dispatched to.
C13_SemanticSubscriberMatched ==
  fnExit \in {"counted", "noMatch"} =>
    \A u \in fnUsers :
      (SampleUsers[u].category = <<>>
       /\ ArticlesContaining(SampleUsers[u].semanticQuery) # <<>>)
        => sendState[u] # "none"

\* C14: while the sends run every matched subscriber has an attempt, whatever
\* the others did; the fan-out returns from the join only when every attempt
\* has settled, and the two counts add up to the matched subscribers.
C14_SettleAll ==
  LET matched == {u \in UserIds : userArticleMap[u] # <<>>}
  IN /\ fnPc = "sending" => \A u \in matched : sendState[u] \in {"pending", "sent", "failed"}
     /\ fnExit = "counted" =>
          /\ \A u \in matched : sendState[u] \in {"sent", "failed"}
          /\ successCount = Cardinality({u \in matched : sendState[u] = "sent"})
          /\ successCount + failureCount = Cardinality(matched)

\* Two matched subscribers: the send to one was rejected, the send to the
\* other went through afterwards, and the counts are one and one.
C14_Witness ==
  /\ fnExit = "counted"
  /\ \E u, w \in UserIds : sendState[u] = "failed" /\ sendState[w] = "sent"
  /\ successCount = 1 /\ failureCount = 1

ScoreOf(a, u) == calculateRelevanceScore(SampleArticles[a], SampleUsers[u].category).v

Descending(ids, u) ==
  \A i, j \in 1..Len(ids) : i < j => ScoreOf(ids[i], u) >= ScoreOf(ids[j], u)

PositionIn(list, a) == CHOOSE k \in 1..Len(list) : list[k] = a

\* C15: in every message built, both listings of the matched articles (the
\* html body and the text body) are in descending order of relevance score,
\* articles of equal score in their original order.
C15_RankedListing ==
  \A u \in UserIds :
    fnMail[u].built =>
      /\ Descending(IdsOf(fnMail[u].html), u)
      /\ \A i, j \in 1..Len(fnMail[u].html) :
           (i < j /\ fnMail[u].html[i].relevanceScore = fnMail[u].html[j].relevanceScore)
             => PositionIn(userArticleMap[u], fnMail[u].html[i].id)
                  < PositionIn(userArticleMap[u], fnMail[u].html[j].id)
      /\ Descending(fnMail[u].text, u)

Loading == {p \in Callers : imPc[p] = "loading"}

\* C16 as stated: the model is loaded once per process.
C16_LoadedOnce == loadsStarted <= 1

\* C16 amended: at most one load is in flight and isInitializing is set
\* exactly while it is; a caller waits only for a load that was started; no
\* load starts or runs once the model is there, so the load succeeds at most
\* once, and every load beyond the first follows a failed one.
C16_LazyInitExclusive ==
  /\ Cardinality(Loading) <= 1
  /\ isInitializing <=> Loading # {}
  /\ embeddingModel => Loading = {} /\ loadsStarted = loadsFailed + 1
  /\ loadsStarted <= loadsFailed + 1
  /\ \A p \in Callers : imPc[p] = "waiting" => loadsStarted >= 1 /\ imWaited[p]

\* One load was started; two other callers arrived while it ran, waited, and
\* got the model it loaded.
C16_Witness ==
  \E p, q, r \in Callers :
    /\ p # q /\ q # r /\ p # r
    /\ imResult[p] = "model" /\ ~imWaited[p]
    /\ imResult[q] = "model" /\ imWaited[q]
    /\ imResult[r] = "model" /\ imWaited[r]
    /\ loadsStarted = 1

Blank(interest) == \A k \in 1..Len(interest) : interest[k] = " "

\* C17: either scorer returns null for an empty or whitespace-only interest
\* string and an integer from 0 to 100 for every other one.
C17_ScoreRange ==
  scSide # "none" =>
    IF Blank(scInterest) THEN scResult = Null
    ELSE scResult.kind = "num" /\ scResult.v \in 0..100

\* C18: the article titled "Ransomware gang targets hospitals" with the tag
\* "ransomware" and nothing else, scored against "ransomware", gets at least
\* 65 and at most 100 from either scorer.
C18_RansomwareScenario ==
  (/\ scSide # "none"
   /\ scArticle = [title |-> RansomwareTitle, content |-> <<>>, summary |-> <<>>,
                   tags |-> <<Ransomware>>]
   /\ scInterest = Ransomware)
    => scResult.kind = "num" /\ scResult.v >= 65 /\ scResult.v <= 100

\* C19: every score assessCredibility returns is an integer from 0 to 100;
\* on the rubric path the AI part is within 0..80, the source part within
\* 0..20, the temporal part 2 or 5 and the author part 0, 2 or 5.
C19_CredibilityRange ==
  crPc = "done" =>
    /\ ~crResult.final.nan /\ crResult.final.v \in 0..100
    /\ crResult.path = "rubric" =>
         /\ ~crResult.aiScore.nan /\ crResult.aiScore.v \in 0..80
         /\ crResult.sourceScore \in 0..20
         /\ crResult.temporalScore \in {2, 5}
         /\ crResult.authorScore \in {0, 2, 5}

InRange(field) == field.kind = "number" /\ field.v \in 0..100

\* C20: for a rubric whose four scores are numbers from 0 to 100, the AI part
\* is 0.30*factualAccuracy + 0.20*(100 - sensationalism) + 0.15*bias
\* + 0.15*citationQuality, rounded, within 0..80.
C20_RubricCombination ==
  LET r == crInput.aiAnalysis
  IN (/\ crPc = "done" /\ crResult.path = "rubric"
      /\ InRange(r.factualAccuracy) /\ InRange(r.sensationalism)
      /\ InRange(r.bias) /\ InRange(r.citationQuality))
       => crResult.aiScore =
            Number(Clamp((30 * r.factualAccuracy.v + 20 * (100 - r.sensationalism.v)
                          + 15 * r.bias.v + 15 * r.citationQuality.v + 50) \div 100, 0, 80))

\* C22: assessCredibility resolves for every article and every AI outcome,
\* and after an error inside it the score is the source-only score, five
\* times the source score.
C22_AssessNeverRaises ==
  crPc = "done" =>
    /\ ~crResult.raised
    /\ InternalError(crInput.article, crInput.client, crInput.answer) # "none" =>
         /\ crResult.path = "sourceOnly"
         /\ crResult.final = Number(5 * getSourceReliabilityScore(crInput.article.url))

\* An article without content, url, author and date was assessed with a
\* client configured: the score is 50.
C22_Witness ==
  /\ crPc = "done"
  /\ crInput.client
  /\ crInput.article = [url |-> "missing", publishedDate |-> "missing", author |-> "blank",
                        content |-> "missing"]
  /\ crResult.final = Number(50)

\* C21: without an AI client the enriched article carries five times the
\* source score as credibilityScore (100 for a known-reliable domain), an
\* empty summary and no embedding.
C21_DegradedWithoutClient ==
  (enPc = "done" /\ ~enOutcome.o.client) =>
    /\ enEnriched.credibilityScore = Number(5 * getSourceReliabilityScore(enRaw.url))
    /\ enRaw.url = "reliable" => enEnriched.credibilityScore = Number(100)
    /\ enEnriched.summary = ""
    /\ enEnriched.embedding = "absent" /\ enEnriched.embCalls = 0

\* An article from a known-reliable domain went through without a client.
C21_Witness ==
  /\ enPc = "done"
  /\ ~enOutcome.o.client
  /\ enRaw.url = "reliable"
  /\ enEnriched.credibilityScore = Number(100)
  /\ enEnriched.mode = "noClient"

\* C23: when the generative step failed, the enriched article has an empty
\* summary, no key points, sentiment neutral and the tags of the scraped
\* article, and the credibility and the embedding were each attempted.
C23_DegradedDefaults ==
  (enPc = "done" /\ enEnriched.mode = "degraded") =>
    /\ enEnriched.summary = ""
    /\ enEnriched.keyPoints = <<>>
    /\ enEnriched.sentiment = "neutral"
    /\ enEnriched.tags = enRaw.tags
    /\ enEnriched.credCalls >= 1
    /\ enEnriched.embCalls >= 1

\* C24: a signup for an address not yet registered is accepted exactly when
\* category or semanticQuery is non-blank; the subscriber created holds each
\* of the two that was given; a refused signup creates no subscriber.
C24_SignupProfile ==
  (suPc = "done" /\ suResult.by # "findOne") =>
    /\ (suResult.status = 201) <=>
         (NonBlank(suBody.category) \/ NonBlank(suBody.semanticQuery))
    /\ suResult.status = 201 =>
         \E u \in subscribers \ suBefore :
           /\ u.email = suBody.email
           /\ NonBlank(suBody.category) => u.category = Given(trim(suBody.category.v))
           /\ NonBlank(suBody.semanticQuery) =>
                u.semanticQuery = Given(trim(suBody.semanticQuery.v))
    /\ suResult.status # 201 => subscribers = suBefore

\* C25: scrapeArticles returns at most 20 articles, each with a title and a
\* content; a detail page that fails or is incomplete is skipped and the
\* remaining links are still visited; the call throws only when the index
\* page failed, before any detail page was visited.
C25_ScrapeBounds ==
  /\ srPc = "returned" =>
       /\ srResult <= 20
       /\ srResult <= srArticles
       /\ srKinds \subseteq {[title |-> TRUE, content |-> TRUE]}
       /\ srPos = srLinks
       /\ srArticles + srSkipped = srLinks
  /\ srPc = "threw" => srPos = 0 /\ srLinks = 0

\* More than 20 links were found, one detail page was skipped and the other
\* nineteen came back.
C25_Witness ==
  /\ srPc = "returned"
  /\ srFound > 20
  /\ srSkipped = 1
  /\ srResult = 19

\* The order in which an invocation goes through its steps, early returns
\* included.
CycleSteps ==
  {<<"idle", "extracting">>, <<"extracting", "dedup">>, <<"extracting", "idle">>,
   <<"dedup", "enriching">>, <<"dedup", "idle">>, <<"enriching", "recheck">>,
   <<"recheck", "save">>, <<"recheck", "looped">>, <<"save", "recheck">>,
   <<"save", "looped">>, <<"looped", "idle">>}

\* The step hands the saved list of slot c to fan-out.
FanoutInvoked(c) == pc[c] # "idle" /\ "notify" \in did'[c]

\* C26: an invocation goes through extracting, deduplicating, enriching,
\* persisting and notifying in that order; articles are enriched one per
\* step, in the order of the unseen list, and all of them before the first
\* insert attempt; fan-out is invoked only once the insert loop has gone past
\* its last article, and it ends the invocation.
C26_StepOrdering ==
  [][\A c \in Cycles :
       /\ pc'[c] # pc[c] => <<pc[c], pc'[c]>> \in CycleSteps
       /\ pc'[c] = "enriching" =>
            /\ Len(processedArticles'[c]) < Len(newArticles'[c])
            /\ Len(processedArticles'[c]) <= Len(processedArticles[c]) + 1
            /\ processedArticles'[c] = SubSeq(newArticles'[c], 1, Len(processedArticles'[c]))
            /\ "insert" \notin did'[c]
       /\ pc'[c] \in {"recheck", "save", "looped"} =>
            /\ processedArticles'[c] = newArticles'[c]
            /\ Len(processedArticles'[c]) <= Len(processedArticles[c]) + 1
            /\ "notify" \notin did'[c]
       /\ pc'[c] \in {"recheck", "save"} => idx'[c] \in 1..Len(processedArticles'[c])
       /\ FanoutInvoked(c) =>
            /\ pc[c] = "looped"
            /\ idx[c] = Len(processedArticles[c]) + 1
            /\ {"find", "enrich", "insert"} \subseteq did'[c]
            /\ pc'[c] = "idle"
  ]_vars

\* An invocation went through all its steps, fan-out included.
C26_Witness ==
  \E c \in Cycles :
    /\ pc[c] = "idle"
    /\ did[c] = {"find", "enrich", "insert", "notify"}
    /\ \E u \in Urls : handed[u] >= 1 /\ store[u] >= 1

LoopStep(c) ==
  /\ pc[c] \in {"recheck", "save"}
  /\ (pc'[c] # pc[c] \/ idx'[c] # idx[c])

\* C28: whatever the re-check or the save of one article does, the insert
\* loop goes on: it moves to the next article, which gets its own re-check,
\* or past the last one; an article whose record was not written is not
\* added to the saved list.
C28_InsertIsolation ==
  [][\A c \in Cycles :
       LoopStep(c) =>
         LET u == processedArticles[c][idx[c]]
         IN /\ pc'[c] \in {"recheck", "save", "looped"}
            /\ processedArticles'[c] = processedArticles[c]
            /\ pc'[c] = "save" => idx'[c] = idx[c] /\ pc[c] = "recheck"
            /\ pc'[c] = "recheck" =>
                 idx'[c] = idx[c] + 1 /\ idx'[c] <= Len(processedArticles[c])
            /\ pc'[c] = "looped" => idx[c] = Len(processedArticles[c])
            /\ store'[u] = store[u] => savedArticles'[c] = savedArticles[c]
            /\ store'[u] # store[u] => savedArticles'[c] = Append(savedArticles[c], u)
  ]_vars

\* The first of two articles was neither saved nor skipped (its re-check or
\* its save raised an error); the second was saved after it.
C28_Witness ==
  \E c \in Cycles :
    /\ pc[c] = "looped"
    /\ processedArticles[c] = <<1, 2>>
    /\ savedArticles[c] = <<2>>
    /\ skippedCount[c] = 0
    /\ store[1] = 0

C30_ShownIsComputed ==
  \A u \in UserIds :
    fnMail[u].built =>
      /\ Len(fnMail[u].shown) = Len(fnMail[u].html)
      /\ \A k \in 1..Len(fnMail[u].html) :
           fnMail[u].shown[k] = fnMail[u].html[k].relevanceScore.v
      /\ fnMail[u].avgRelevance =
           RoundDiv(SumScores(fnMail[u].html), Len(fnMail[u].html))

====
